---------------------------- MODULE Spec2Model ----------------------------
(***************************************************************************)
(* Bank-statement ingestion of the personal expense tracker.               *)
(*                                                                         *)
(* Two ingestion services exist in the repository:                         *)
(*   - the CSV service (parseCSVFile and its helpers, src/unnamed/part_009)*)
(*     used by the /csv and /validate routes;                              *)
(*   - the bank-extract service (parseBankExtract, parseCSV, parseExcel,   *)
(*     parsePDF, src/backend/src/services/fileParser.ts) used by the       *)
(*     /bank-extract route.                                                *)
(*                                                                         *)
(* Strings are sequences of one-character strings, so that lower-casing,   *)
(* regular-expression replacement, trimming and number parsing are         *)
(* computed character by character as the JavaScript code computes them.   *)
(* Numbers are integers counting hundredths (1500.00 is 150000); every     *)
(* numeric text of the model has at most two fractional digits, no         *)
(* exponent and is not "Infinity", so parseFloat is exact on them.         *)
(***************************************************************************)
EXTENDS Integers, Sequences, FiniteSets, TLC

---------------------------------------------------------------------------
(* Characters and JavaScript string primitives                             *)

Digits == {"0", "1", "2", "3", "4", "5", "6", "7", "8", "9"}

UpperSeq == <<"A", "B", "C", "D", "E", "F", "G", "H", "I", "J", "K", "L", "M", "N", "O", "P", "Q", "R", "S", "T", "U", "V", "W", "X", "Y", "Z">>

LowerSeq == <<"a", "b", "c", "d", "e", "f", "g", "h", "i", "j", "k", "l", "m", "n", "o", "p", "q", "r", "s", "t", "u", "v", "w", "x", "y", "z">>

LowerSet == {LowerSeq[i] : i \in 1..Len(LowerSeq)}

UpperSet == {UpperSeq[i] : i \in 1..Len(UpperSeq)}

\* \s of a JavaScript regular expression, and the characters trim() removes
WhiteSpace == {" ", "\t"}

DigitVal(c) == CHOOSE n \in 0..9 : <<"0", "1", "2", "3", "4", "5", "6", "7", "8", "9">>[n + 1] = c

SetMin(S) == CHOOSE x \in S : \A y \in S : x <= y

SetMax(S) == CHOOSE x \in S : \A y \in S : x >= y

\* String.prototype.toLowerCase
lowerOf ==
  [c \in UpperSet |-> LowerSeq[CHOOSE k \in 1..Len(UpperSeq) : UpperSeq[k] = c]]

toLowerCase(s) ==
  [i \in 1..Len(s) |-> IF s[i] \in UpperSet THEN lowerOf[s[i]] ELSE s[i]]

\* s.replace(/[...]/g, '') for a character class given as a set
removeChars(s, class) == SelectSeq(s, LAMBDA c : c \notin class)

\* s.replace(/[^a-z0-9]/g, '')
keepLowerAlnum(s) == SelectSeq(s, LAMBDA c : c \in LowerSet \cup Digits)

\* String.prototype.trim
trim(s) ==
  LET solid == {i \in 1..Len(s) : s[i] \notin WhiteSpace}
  IN IF solid = {} THEN <<>> ELSE SubSeq(s, SetMin(solid), SetMax(solid))

\* String.prototype.includes
includes(s, sub) ==
  \/ Len(sub) = 0
  \/ \E i \in 1..(Len(s) - Len(sub) + 1) :
       s[i] = sub[1] /\ SubSeq(s, i, i + Len(sub) - 1) = sub

\* index (from 1) of the first occurrence of sub in s, 0 when there is none
indexOf(s, sub) ==
  LET at == {i \in 1..(Len(s) - Len(sub) + 1) : SubSeq(s, i, i + Len(sub) - 1) = sub}
  IN IF at = {} THEN 0 ELSE SetMin(at)

\* s.replace(sub, ''): the first occurrence of the literal sub is removed
replaceFirst(s, sub) ==
  LET i == indexOf(s, sub)
  IN IF i = 0 THEN s
     ELSE SubSeq(s, 1, i - 1) \o SubSeq(s, i + Len(sub), Len(s))

\* a JavaScript string is truthy when it is not empty (undefined is the
\* empty sequence in this model: the code only tests such values for truth)
truthy(s) == Len(s) > 0

charAt(s, i) == IF i \in 1..Len(s) THEN s[i] ELSE ""

\* the pieces of s between the occurrences of the character sep
splitOn(s, sep) ==
  LET cuts   == {i \in 1..Len(s) : s[i] = sep}
      cut(k) == IF k = 0 THEN 0
                ELSE IF k > Cardinality(cuts) THEN Len(s) + 1
                ELSE CHOOSE p \in cuts : Cardinality({q \in cuts : q < p}) = k - 1
  IN [k \in 1..(Cardinality(cuts) + 1) |-> SubSeq(s, cut(k - 1) + 1, cut(k) - 1)]
---------------------------------------------------------------------------
(* Numbers: parseFloat, in hundredths                                      *)

NaN == [isNaN |-> TRUE, val |-> 0]

Num(v) == [isNaN |-> FALSE, val |-> v]

Abs(n) == IF n < 0 THEN 0 - n ELSE n

\* length of the longest run of digits of s starting at position i
digitRun(s, i) ==
  LET stops == {j \in i..Len(s) : s[j] \notin Digits}
  IN IF i > Len(s) THEN 0
     ELSE IF stops = {} THEN Len(s) - i + 1 ELSE SetMin(stops) - i

\* value of the digits s[i..i+n-1]
digitsValue(s, i, n) ==
  LET F[k \in 0..n] == IF k = 0 THEN 0 ELSE F[k - 1] * 10 + DigitVal(s[i + k - 1])
  IN F[n]

\* the hundredths denoted by the fraction digits s[i..i+n-1] (two are kept)
fractionValue(s, i, n) ==
  IF n = 0 THEN 0
  ELSE IF n = 1 THEN DigitVal(s[i]) * 10
  ELSE DigitVal(s[i]) * 10 + DigitVal(s[i + 1])

\* the position of the first character of s that is no white space
skipWhiteSpace(s) ==
  LET solid == {i \in 1..Len(s) : s[i] \notin WhiteSpace}
  IN IF solid = {} THEN Len(s) + 1 ELSE SetMin(solid)

\* the number with nInt integer digits from position p and nFrac fraction
\* digits after the point; NaN when there is no digit at all
decimalValue(s, p, nInt, nFrac, negative) ==
  IF nInt = 0 /\ nFrac = 0 THEN NaN
  ELSE IF negative
    THEN Num(0 - (digitsValue(s, p, nInt) * 100 + fractionValue(s, p + nInt + 1, nFrac)))
    ELSE Num(digitsValue(s, p, nInt) * 100 + fractionValue(s, p + nInt + 1, nFrac))

fractionRun(s, p, nInt) ==
  IF charAt(s, p + nInt) = "." THEN digitRun(s, p + nInt + 1) ELSE 0

decimalFrom(s, p, nInt, negative) ==
  decimalValue(s, p, nInt, fractionRun(s, p, nInt), negative)

signedDecimal(s, start) ==
  IF charAt(s, start) \in {"+", "-"}
    THEN decimalFrom(s, start + 1, digitRun(s, start + 1), charAt(s, start) = "-")
    ELSE decimalFrom(s, start, digitRun(s, start), FALSE)

\* parseFloat: leading white space is skipped, then the longest prefix
\* [+-] digits [. digits] | [+-] . digits is converted; NaN without one
parseFloat(s) == signedDecimal(s, skipWhiteSpace(s))
---------------------------------------------------------------------------
(* Calendar: the day arithmetic behind JavaScript Date and moment          *)

\* days since 1970-01-01 of the proleptic Gregorian date y-m-d (1 <= m <= 12;
\* d may exceed the length of the month, as in MakeDay)
daysFromCivil(y, m, d) ==
  LET yy  == IF m <= 2 THEN y - 1 ELSE y
      era == yy \div 400
      yoe == yy - era * 400
      mp  == IF m > 2 THEN m - 3 ELSE m + 9
      doy == (153 * mp + 2) \div 5 + d - 1
      doe == yoe * 365 + yoe \div 4 - yoe \div 100 + doy
  IN era * 146097 + doe - 719468

\* the date <<y, m, d>> of the day doy (counted from 1 March) of the year
\* yoe of the 400-year era
civilOfEra(era, yoe, doy) ==
  LET mp == (5 * doy + 2) \div 153
      d  == doy - (153 * mp + 2) \div 5 + 1
      m  == IF mp < 10 THEN mp + 3 ELSE mp - 9
  IN <<IF m <= 2 THEN yoe + era * 400 + 1 ELSE yoe + era * 400, m, d>>

civilOfYear(era, doe, yoe) ==
  civilOfEra(era, yoe, doe - (365 * yoe + yoe \div 4 - yoe \div 100))

civilOfDay(era, doe) ==
  civilOfYear(era, doe,
              (doe - doe \div 1460 + doe \div 36524 - doe \div 146096) \div 365)

\* the date <<y, m, d>> of a day number
civilFromDays(z) ==
  civilOfDay((z + 719468) \div 146097, (z + 719468) % 146097)

isLeap(y) == (y % 4 = 0 /\ y % 100 # 0) \/ y % 400 = 0

daysInMonth(y, m) ==
  IF m = 2 THEN (IF isLeap(y) THEN 29 ELSE 28)
  ELSE IF m \in {4, 6, 9, 11} THEN 30 ELSE 31

\* A Date value: invalid, or midnight of a day (a day number) taken either
\* in UTC or in the time zone of the process
InvalidDate == [valid |-> FALSE, day |-> 0, utc |-> FALSE]

DateAt(dayNumber, isUTC) == [valid |-> TRUE, day |-> dayNumber, utc |-> isUTC]

\* MakeDay(year, month0, date): months beyond 0..11 carry into the year, days
\* beyond the month carry into the following months
makeDay(year, month0, date) ==
  daysFromCivil(year + month0 \div 12, (month0 % 12) + 1, 1) + date - 1

\* new Date(year, monthIndex, day): local midnight; never invalid for the
\* finite integers the code passes; a year 0..99 means 1900 + year
newDateLocal(year, month0, day) ==
  DateAt(makeDay(IF year \in 0..99 THEN 1900 + year ELSE year, month0, day), FALSE)

\* the n decimal digits of k, zero padded
padDigits(k, n) ==
  LET P[i \in 0..n] == IF i = 0 THEN 1 ELSE 10 * P[i - 1]
  IN [i \in 1..n |-> <<"0", "1", "2", "3", "4", "5", "6", "7", "8", "9">>[((k \div P[n - i]) % 10) + 1]]

\* the year of an ISO date: four digits for the years 0..9999, a sign and
\* six digits otherwise
formatYear(y) ==
  IF y \in 0..9999 THEN padDigits(y, 4)
  ELSE IF y > 9999 THEN <<"+">> \o padDigits(y, 6)
  ELSE <<"-">> \o padDigits(0 - y, 6)

\* the date part of Date.prototype.toISOString, the YYYY-MM-DD of moment
formatYMD(ymd) ==
  formatYear(ymd[1]) \o <<"-">> \o padDigits(ymd[2], 2) \o <<"-">> \o padDigits(ymd[3], 2)

\* date.toISOString().split('T')[0]: the UTC day of the instant. Local
\* midnight falls on the previous UTC day when the process runs east of
\* Greenwich (east) and on the same UTC day otherwise.
\* toISOString of a date that was read as local midnight whatever its form
toISODateOfLocal(date, east) ==
  formatYMD(civilFromDays(IF ~east THEN date.day ELSE date.day - 1))

toISODate(date, east) ==
  formatYMD(civilFromDays(IF date.utc \/ ~east THEN date.day ELSE date.day - 1))

allDigits(s) == \A i \in 1..Len(s) : s[i] \in Digits

numberOf(s) == digitsValue(s, 1, Len(s))

\* the pieces are three runs of digits of the widths w1, w2, w3
threeNumbers(parts, w1, w2, w3) ==
  /\ Len(parts) = 3
  /\ \A i \in 1..3 : allDigits(parts[i])
  /\ Len(parts[1]) \in w1 /\ Len(parts[2]) \in w2 /\ Len(parts[3]) \in w3

\* s matches ^\d{a}<sep>\d{b}<sep>\d{c}$ with a \in w1, b \in w2, c \in w3
matchesNumbers(s, sep, w1, w2, w3) == threeNumbers(splitOn(s, sep), w1, w2, w3)

numbersIn(parts) == <<numberOf(parts[1]), numberOf(parts[2]), numberOf(parts[3])>>

\* the three numbers of such a string
numbersOf(s, sep) == numbersIn(splitOn(s, sep))

\* the date of V8 for a year, a month and a day that were read from a text:
\* invalid when the month is not 1..12 or the day not 1..31; a day past the
\* end of the month carries into the next month
dayOf(year, month, day, isUTC) ==
  IF month \in 1..12 /\ day \in 1..31
    THEN DateAt(makeDay(year, month - 1, day), isUTC)
    ELSE InvalidDate

isoDateOnly(n) == dayOf(n[1], n[2], n[3], TRUE)

legacyMonthFirst(n) == dayOf(n[3], n[1], n[2], FALSE)

legacyYearFirst(n) == dayOf(n[1], n[2], n[3], FALSE)

\* Date.parse of V8 on the texts of this model.
\*  - YYYY-MM-DD with month 1..12 and day 1..31 is the ISO date-only form: UTC
\*    midnight, days past the end of the month carrying into the next month;
\*  - N/N/YYYY and N-N-YYYY are read by the legacy parser month first, as a
\*    local date, and are invalid when the month exceeds 12 or the day 31;
\*  - YYYY/N/N is read by the legacy parser year first, as a local date;
\*  - every other text of the model (empty, or holding no digit) is invalid.
dateParse(s) ==
  IF matchesNumbers(s, "-", {4}, {2}, {2}) THEN isoDateOnly(numbersOf(s, "-"))
  ELSE IF matchesNumbers(s, "/", {1, 2}, {1, 2}, {4})
    THEN legacyMonthFirst(numbersOf(s, "/"))
  ELSE IF matchesNumbers(s, "-", {1, 2}, {1, 2}, {4})
    THEN legacyMonthFirst(numbersOf(s, "-"))
  ELSE IF matchesNumbers(s, "/", {4}, {1, 2}, {1, 2})
    THEN legacyYearFirst(numbersOf(s, "/"))
  ELSE InvalidDate
---------------------------------------------------------------------------
(* The CSV service: parseTransactionRow and its helpers                    *)
(*                                                                         *)
(* A row object is a sequence of <<label, value>> pairs in the order of    *)
(* its keys. A missing property reads as the empty string: the code only   *)
(* tests such reads for truth. null results that the code only tests for   *)
(* truth (a description, a date) are the empty string as well.             *)

Null == [isNull |-> TRUE, val |-> 0]

Just(v) == [isNull |-> FALSE, val |-> v]

\* What a call comes to: a thrown Error, a returned value, a returned null
Thrown(message) == [kind |-> "throw", message |-> message]

Returned(value) == [kind |-> "return", value |-> value]

ReturnedNull == [kind |-> "null"]

hasKey(row, key) == \E i \in 1..Len(row) : row[i][1] = key

\* row[key]
get(row, key) ==
  IF hasKey(row, key)
    THEN row[CHOOSE i \in 1..Len(row) : row[i][1] = key][2]
    ELSE <<>>

\* key.toLowerCase().replace(/[^a-z0-9]/g, '')
normalizeKey(key) == keepLowerAlnum(toLowerCase(key))

\* the properties of the row under the keys key[i]: a key met again keeps
\* its place among the keys and takes the later value
rekeyed(row, key) ==
  LET firsts   == {i \in 1..Len(row) : \A j \in 1..(i - 1) : key[j] # key[i]}
      first(k) == CHOOSE i \in firsts : Cardinality({j \in firsts : j < i}) = k - 1
      last(i)  == SetMax({j \in 1..Len(row) : key[j] = key[i]})
  IN [k \in 1..Cardinality(firsts) |-> <<key[first(k)], row[last(first(k))][2]>>]

\* normalizedRow: each property is stored under its normalized key
normalizeRow(row) == rekeyed(row, [i \in 1..Len(row) |-> normalizeKey(row[i][1])])

\* the number parseFloat found, negative when the value held parentheses
\* parseNumber returning the parsed number whatever the parentheses
signedNumberAsWritten(isNegative, parsed) ==
  IF parsed.isNaN THEN Null ELSE Just(parsed.val)

signedNumber(isNegative, parsed) ==
  IF parsed.isNaN THEN Null
  ELSE Just(IF isNegative THEN 0 - Abs(parsed.val) ELSE parsed.val)

numberOfCleaned(cleaned) ==
  signedNumber(includes(cleaned, <<"(">>) /\ includes(cleaned, <<")">>),
               parseFloat(removeChars(cleaned, {"(", ")"})))

\* parseNumber: currency symbols, commas and white space are removed, a
\* value holding both parentheses is negative
parseNumber(value) ==
  IF ~truthy(value) THEN Null
  ELSE numberOfCleaned(removeChars(value, {"$", ","} \cup WhiteSpace))

amountFields ==
  << <<"a", "m", "o", "u", "n", "t">>, <<"a", "m", "t">>, <<"v", "a", "l", "u", "e">>, <<"s", "u", "m">>, <<"t", "o", "t", "a", "l">>,
     <<"d", "e", "b", "i", "t">>, <<"c", "r", "e", "d", "i", "t">>, <<"t", "r", "a", "n", "s", "a", "c", "t", "i", "o", "n">>, <<"t", "r", "a", "n", "s", "a", "c", "t", "i", "o", "n", "a", "m", "o", "u", "n", "t">>,
     <<"w", "i", "t", "h", "d", "r", "a", "w", "a", "l", "s">>, <<"d", "e", "p", "o", "s", "i", "t", "s">>, <<"p", "a", "y", "m", "e", "n", "t">>, <<"c", "h", "a", "r", "g", "e">> >>

\* the first of the numbers that is not null, null without one
firstNumber(numbers) ==
  LET found == {i \in 1..Len(numbers) : ~numbers[i].isNull}
  IN IF found = {} THEN Null ELSE numbers[SetMin(found)]

\* what the first loop of extractAmount reads, field by field
listedAmounts(row) ==
  [i \in 1..Len(amountFields) |-> parseNumber(get(row, amountFields[i]))]

\* what the second loop of extractAmount reads, property by property
looseAmounts(row) ==
  [i \in 1..Len(row) |->
     IF \/ includes(row[i][1], <<"a", "m", "o", "u", "n", "t">>)
        \/ includes(row[i][1], <<"s", "u", "m">>)
        \/ includes(row[i][1], <<"t", "o", "t", "a", "l">>)
       THEN parseNumber(row[i][2])
       ELSE Null]

\* extractAmount: the first listed field that is set and parses; failing
\* that the first property whose key holds amount, sum or total and parses
extractAmount(row) == firstNumber(listedAmounts(row) \o looseAmounts(row))

descriptionFields ==
  << <<"d", "e", "s", "c", "r", "i", "p", "t", "i", "o", "n">>, <<"d", "e", "s", "c">>, <<"m", "e", "m", "o">>, <<"d", "e", "t", "a", "i", "l", "s">>, <<"n", "o", "t", "e">>, <<"n", "o", "t", "e", "s">>,
     <<"r", "e", "f", "e", "r", "e", "n", "c", "e">>, <<"r", "e", "f">>, <<"p", "a", "y", "e", "e">>, <<"m", "e", "r", "c", "h", "a", "n", "t">>, <<"v", "e", "n", "d", "o", "r">>,
     <<"t", "r", "a", "n", "s", "a", "c", "t", "i", "o", "n", "d", "e", "s", "c", "r", "i", "p", "t", "i", "o", "n">>, <<"n", "a", "r", "r", "a", "t", "i", "v", "e">>, <<"p", "a", "r", "t", "i", "c", "u", "l", "a", "r", "s">> >>

\* the first of the texts that is not empty, the empty string without one
firstText(texts) ==
  LET found == {i \in 1..Len(texts) : truthy(texts[i])}
  IN IF found = {} THEN <<>> ELSE texts[SetMin(found)]

\* what the first loop of extractDescription reads: the trimmed fields
listedDescriptions(row) ==
  [i \in 1..Len(descriptionFields) |-> trim(get(row, descriptionFields[i]))]

\* what the fallback loop of extractDescription reads: the trimmed values
\* that do not start with a number
looseDescriptions(row) ==
  [i \in 1..Len(row) |->
     IF parseFloat(row[i][2]).isNaN THEN trim(row[i][2]) ELSE <<>>]

\* extractDescription: the first listed field that is not blank, trimmed;
\* failing that the first property whose value is not blank and does not
\* start with a number; the empty string stands for null
extractDescription(row) == firstText(listedDescriptions(row) \o looseDescriptions(row))

\* new Date(year, month - 1, day) for the numbers n of a matched pattern,
\* the year, month and day being n[iy], n[im], n[id]
patternDate(n, iy, im, id) == newDateLocal(n[iy], n[im] - 1, n[id])

\* the result of parseDate for a string whose generic parse is date
dateOrPattern(dateString, date, east) ==
  IF date.valid THEN toISODate(date, east)
  ELSE IF matchesNumbers(dateString, "/", {1, 2}, {1, 2}, {4})
    THEN toISODate(patternDate(numbersOf(dateString, "/"), 3, 1, 2), east)
  ELSE IF matchesNumbers(dateString, "-", {4}, {2}, {2})
    THEN toISODate(patternDate(numbersOf(dateString, "-"), 1, 2, 3), east)
  ELSE IF matchesNumbers(dateString, "-", {2}, {2}, {4})
    THEN toISODate(patternDate(numbersOf(dateString, "-"), 3, 2, 1), east)
  ELSE <<>>

\* parseDate: the generic Date parse is tried first; when it is invalid the
\* three patterns are tried in the order slash, ISO, dash, the numbers of the
\* slash form being read month first and given to new Date(year, month - 1,
\* day), which is never invalid. The empty string stands for null.
parseDate(dateString, east) ==
  IF ~truthy(dateString) THEN <<>>
  ELSE dateOrPattern(dateString, dateParse(dateString), east)

dateFields ==
  << <<"d", "a", "t", "e">>, <<"t", "r", "a", "n", "s", "a", "c", "t", "i", "o", "n", "d", "a", "t", "e">>, <<"p", "o", "s", "t", "d", "a", "t", "e">>, <<"v", "a", "l", "u", "e", "d", "a", "t", "e">>,
     <<"d", "a", "t", "e", "t", "i", "m", "e">>, <<"t", "i", "m", "e", "s", "t", "a", "m", "p">>, <<"c", "r", "e", "a", "t", "e", "d">>, <<"p", "r", "o", "c", "e", "s", "s", "e", "d">> >>

\* extractDate: the first listed field that is set and parses
extractDate(row, east) ==
  firstText([i \in 1..Len(dateFields) |-> parseDate(get(row, dateFields[i]), east)])

typeFields == << <<"t", "y", "p", "e">>, <<"t", "r", "a", "n", "s", "a", "c", "t", "i", "o", "n", "t", "y", "p", "e">>, <<"c", "a", "t", "e", "g", "o", "r", "y">>, <<"d", "e", "b", "i", "t", "c", "r", "e", "d", "i", "t">> >>

saysIncome(value) ==
  \/ includes(value, <<"c", "r", "e", "d", "i", "t">>)
  \/ includes(value, <<"d", "e", "p", "o", "s", "i", "t">>)
  \/ includes(value, <<"i", "n", "c", "o", "m", "e">>)

saysExpense(value) ==
  \/ includes(value, <<"d", "e", "b", "i", "t">>)
  \/ includes(value, <<"w", "i", "t", "h", "d", "r", "a", "w", "a", "l">>)
  \/ includes(value, <<"e", "x", "p", "e", "n", "s", "e">>)

\* the lower-cased values of the type fields, in list order
typeValues(row) == [i \in 1..Len(typeFields) |-> toLowerCase(get(row, typeFields[i]))]

\* explicitType with the two tests exchanged: an expense keyword is looked
\* for before an income keyword
explicitTypeExpenseFirst(values) ==
  LET telling == {i \in 1..Len(values) : saysIncome(values[i]) \/ saysExpense(values[i])}
  IN IF telling = {} THEN ""
     ELSE IF saysExpense(values[SetMin(telling)]) THEN "expense" ELSE "income"

\* the type the first value holding a keyword gives, an income keyword being
\* looked for before an expense keyword; "" when no value holds a keyword
explicitType(values) ==
  LET telling == {i \in 1..Len(values) : saysIncome(values[i]) \/ saysExpense(values[i])}
  IN IF telling = {} THEN ""
     ELSE IF saysIncome(values[SetMin(telling)]) THEN "income" ELSE "expense"

\* the type when no type field decides: a debit column that parses, then a
\* credit column that parses, then the sign of the amount
columnType(row, amount) ==
  IF ~parseNumber(get(row, <<"d", "e", "b", "i", "t">>)).isNull THEN "expense"
  ELSE IF ~parseNumber(get(row, <<"c", "r", "e", "d", "i", "t">>)).isNull THEN "income"
  ELSE IF amount < 0 THEN "expense" ELSE "income"

typeOr(explicit, fallback) == IF explicit # "" THEN explicit ELSE fallback

\* determineTransactionType
determineTransactionType(row, amount) ==
  typeOr(explicitType(typeValues(row)), columnType(row, amount))

\* checkedTransaction without Math.abs: the amount is stored with its sign
checkedTransactionSigned(normalizedRow, amount, description, date) ==
  IF amount.isNull THEN Thrown("Could not parse amount from row")
  ELSE IF ~truthy(description) THEN Thrown("Could not parse description from row")
  ELSE IF ~truthy(date) THEN Thrown("Could not parse date from row")
  ELSE Returned([amount      |-> amount.val,
                 description |-> trim(description),
                 type        |-> determineTransactionType(normalizedRow, amount.val),
                 date        |-> date])

\* checkedTransaction testing the amount for truth (!amount): an amount of
\* zero counts as missing
checkedTransactionNonZero(normalizedRow, amount, description, date) ==
  IF amount.isNull \/ amount.val = 0 THEN Thrown("Could not parse amount from row")
  ELSE IF ~truthy(description) THEN Thrown("Could not parse description from row")
  ELSE IF ~truthy(date) THEN Thrown("Could not parse date from row")
  ELSE Returned([amount      |-> Abs(amount.val),
                 description |-> trim(description),
                 type        |-> determineTransactionType(normalizedRow, amount.val),
                 date        |-> date])

\* checkedTransaction with its checks in the order date, description, amount
checkedTransactionDateFirst(normalizedRow, amount, description, date) ==
  IF ~truthy(date) THEN Thrown("Could not parse date from row")
  ELSE IF ~truthy(description) THEN Thrown("Could not parse description from row")
  ELSE IF amount.isNull THEN Thrown("Could not parse amount from row")
  ELSE Returned([amount      |-> Abs(amount.val),
                 description |-> trim(description),
                 type        |-> determineTransactionType(normalizedRow, amount.val),
                 date        |-> date])

\* the checks of parseTransactionRow on what was extracted, in the order
\* amount, description, date
checkedTransaction(normalizedRow, amount, description, date) ==
  IF amount.isNull THEN Thrown("Could not parse amount from row")
  ELSE IF ~truthy(description) THEN Thrown("Could not parse description from row")
  ELSE IF ~truthy(date) THEN Thrown("Could not parse date from row")
  ELSE Returned([amount      |-> Abs(amount.val),
                 description |-> trim(description),
                 type        |-> determineTransactionType(normalizedRow, amount.val),
                 date        |-> date])

extracted(normalizedRow, east) ==
  checkedTransaction(normalizedRow,
                     extractAmount(normalizedRow),
                     extractDescription(normalizedRow),
                     extractDate(normalizedRow, east))

\* parseTransactionRow: a transaction, or an Error naming the first of
\* amount, description, date that could not be extracted
parseTransactionRow(row, east) == extracted(normalizeRow(row), east)
---------------------------------------------------------------------------
(* The bank-extract service: normalizeDate, parseCSVRow, parsePDFLine      *)

\* the numbers name a day of the calendar; order gives the places of year,
\* month and day among them
calendarDay(n, order) ==
  /\ n[order[2]] \in 1..12
  /\ n[order[3]] \in 1..daysInMonth(n[order[1]], n[order[2]])

\* moment(dateStr, format, true).isValid() for a format of three numeric
\* fields: the text has exactly the widths of the format and names a day
\* of the calendar
strictValid(dateStr, sep, w1, w2, w3, order) ==
  /\ matchesNumbers(dateStr, sep, {w1}, {w2}, {w3})
  /\ calendarDay(numbersOf(dateStr, sep), order)

orderedYMD(n, order) == formatYMD(<<n[order[1]], n[order[2]], n[order[3]]>>)

strictDate(dateStr, sep, order) == orderedYMD(numbersOf(dateStr, sep), order)

\* moment(dateStr) for a text no strict format accepted: a text of the ISO
\* shape is parsed as ISO and is invalid (the strict ISO format refused it),
\* any other text goes to the Date constructor, whose date is formatted as
\* the local day
fallbackDate(dateStr, date) ==
  IF matchesNumbers(dateStr, "-", {4}, {2}, {2}) THEN Thrown("Unable to parse date")
  ELSE IF date.valid THEN Returned(formatYMD(civilFromDays(date.day)))
  ELSE Thrown("Unable to parse date")

\* normalizeDate: the first strict format that is valid, in the order
\* YYYY-MM-DD, MM/DD/YYYY, DD/MM/YYYY, MM-DD-YYYY, DD-MM-YYYY, YYYY/MM/DD;
\* then moment(dateStr); an Error when nothing is valid
normalizeDate(dateStr) ==
  IF strictValid(dateStr, "-", 4, 2, 2, <<1, 2, 3>>)
    THEN Returned(strictDate(dateStr, "-", <<1, 2, 3>>))
  ELSE IF strictValid(dateStr, "/", 2, 2, 4, <<3, 1, 2>>)
    THEN Returned(strictDate(dateStr, "/", <<3, 1, 2>>))
  ELSE IF strictValid(dateStr, "/", 2, 2, 4, <<3, 2, 1>>)
    THEN Returned(strictDate(dateStr, "/", <<3, 2, 1>>))
  ELSE IF strictValid(dateStr, "-", 2, 2, 4, <<3, 1, 2>>)
    THEN Returned(strictDate(dateStr, "-", <<3, 1, 2>>))
  ELSE IF strictValid(dateStr, "-", 2, 2, 4, <<3, 2, 1>>)
    THEN Returned(strictDate(dateStr, "-", <<3, 2, 1>>))
  ELSE IF strictValid(dateStr, "/", 4, 2, 2, <<1, 2, 3>>)
    THEN Returned(strictDate(dateStr, "/", <<1, 2, 3>>))
  ELSE fallbackDate(dateStr, dateParse(dateStr))

dateColumns == << <<"d", "a", "t", "e">>, <<"t", "r", "a", "n", "s", "a", "c", "t", "i", "o", "n", "_", "d", "a", "t", "e">>, <<"p", "o", "s", "t", "i", "n", "g", "_", "d", "a", "t", "e">>, <<"v", "a", "l", "u", "e", "_", "d", "a", "t", "e">> >>

descriptionColumns ==
  << <<"d", "e", "s", "c", "r", "i", "p", "t", "i", "o", "n">>, <<"m", "e", "m", "o">>, <<"d", "e", "t", "a", "i", "l", "s">>, <<"t", "r", "a", "n", "s", "a", "c", "t", "i", "o", "n", "_", "d", "e", "t", "a", "i", "l", "s">>, <<"n", "a", "r", "r", "a", "t", "i", "o", "n">> >>

amountColumns ==
  << <<"a", "m", "o", "u", "n", "t">>, <<"t", "r", "a", "n", "s", "a", "c", "t", "i", "o", "n", "_", "a", "m", "o", "u", "n", "t">>, <<"d", "e", "b", "i", "t">>, <<"c", "r", "e", "d", "i", "t">>, <<"b", "a", "l", "a", "n", "c", "e">> >>

\* the value of the first column of the list that is set, else the empty string
firstSet(row, columns) == firstText([i \in 1..Len(columns) |-> get(row, columns[i])])

\* a || b for two strings
orElse(a, b) == IF truthy(a) THEN a ELSE b

\* the first of the numbers that is not NaN, 0 without one
firstAmount(numbers) ==
  LET found == {i \in 1..Len(numbers) : ~numbers[i].isNaN}
  IN IF found = {} THEN 0 ELSE numbers[SetMin(found)].val

\* what the amount loop of parseCSVRow reads, column by column
columnAmounts(row) ==
  [i \in 1..Len(amountColumns) |->
     parseFloat(removeChars(get(row, amountColumns[i]), {",", "$"}))]

\* the transaction of parseCSVRow, or the Error of normalizeDate
datedTransaction(row, normalizedDate, description, amount) ==
  IF normalizedDate.kind = "throw" THEN normalizedDate
  ELSE Returned([date        |-> normalizedDate.value,
                 description |-> trim(description),
                 amount      |-> Abs(amount),
                 type        |-> IF amount > 0 THEN "income" ELSE "expense",
                 account     |-> orElse(get(row, <<"a", "c", "c", "o", "u", "n", "t">>),
                                        get(row, <<"a", "c", "c", "o", "u", "n", "t", "_", "n", "u", "m", "b", "e", "r">>)),
                 reference   |-> orElse(get(row, <<"r", "e", "f", "e", "r", "e", "n", "c", "e">>),
                                        get(row, <<"t", "r", "a", "n", "s", "a", "c", "t", "i", "o", "n", "_", "i", "d">>))])

foundColumns(row, date, description, amount) ==
  IF ~truthy(date) \/ ~truthy(description) \/ amount = 0 THEN ReturnedNull
  ELSE datedTransaction(row, normalizeDate(date), description, amount)

\* parseCSVRow: columns are looked up under their labels as they stand; the
\* amount is the first amount column that is set and parses, 0 without one;
\* null unless a date, a description and a non-zero amount were found; the
\* Error of normalizeDate is not caught here
parseCSVRow(row) ==
  foundColumns(row, firstSet(row, dateColumns), firstSet(row, descriptionColumns),
               firstAmount(columnAmounts(row)))

\* datePattern matches the ten characters t
isDateText(t) ==
  \/ matchesNumbers(t, "-", {4}, {2}, {2})
  \/ matchesNumbers(t, "/", {2}, {2}, {4})
  \/ matchesNumbers(t, "-", {2}, {2}, {4})

\* the leftmost position of s where datePattern matches, 0 without one
firstDateAt(s) ==
  LET at == {i \in 1..(Len(s) - 9) : isDateText(SubSeq(s, i, i + 9))}
  IN IF at = {} THEN 0 ELSE SetMin(at)

\* the length of the longest run of groups ,\d{3} of s from position p
groupsAt(s, p) ==
  LET ok(k) == \A j \in 0..(k - 1) :
                 /\ charAt(s, p + 4 * j) = ","
                 /\ \A d \in 1..3 : charAt(s, p + 4 * j + d) \in Digits
  IN 4 * SetMax({k \in 0..(Len(s) \div 4) : ok(k)})

\* the end of the optional \.\d{2} at position c
centsEnd(s, c) ==
  IF charAt(s, c) = "." /\ charAt(s, c + 1) \in Digits /\ charAt(s, c + 2) \in Digits
    THEN c + 3 ELSE c

\* the end of \d{1,3}(?:,\d{3})*(?:\.\d{2})? from position b, 0 without a digit
digitsEnd(s, b, n) == IF n = 0 THEN 0 ELSE centsEnd(s, b + n + groupsAt(s, b + n))

numberEnd(s, b) == digitsEnd(s, b, IF digitRun(s, b) > 3 THEN 3 ELSE digitRun(s, b))

dollarEnd(s, a) == numberEnd(s, IF charAt(s, a) = "$" THEN a + 1 ELSE a)

\* the position after the match of amountPattern,
\* [+-]?\$?\d{1,3}(?:,\d{3})*(?:\.\d{2})?, at position i of s; 0 without one
amountEnd(s, i) == dollarEnd(s, IF charAt(s, i) \in {"+", "-"} THEN i + 1 ELSE i)

\* the leftmost position of s where amountPattern matches, 0 without one
firstAmountAt(s) ==
  LET at == {i \in 1..Len(s) : amountEnd(s, i) > 0}
  IN IF at = {} THEN 0 ELSE SetMin(at)

\* the transaction of parsePDFLine, or the Error of normalizeDate
lineTransaction(date, amount, description) ==
  IF date.kind = "throw" THEN date
  ELSE IF amount.isNaN THEN ReturnedNull
  ELSE Returned([date        |-> date.value,
                 description |-> description,
                 amount      |-> Abs(amount.val),
                 type        |-> IF amount.val > 0 THEN "income" ELSE "expense"])

\* the description is the line without the first occurrence of the date
\* text, then of the amount text, without any sign, trimmed
matchedLine(trimmedLine, dateMatch, amountMatch) ==
  lineTransaction(normalizeDate(dateMatch),
                  parseFloat(removeChars(amountMatch, {",", "$"})),
                  trim(removeChars(replaceFirst(replaceFirst(trimmedLine, dateMatch),
                                                amountMatch), {"+", "-"})))

scannedLine(trimmedLine, dateAt, amountAt) ==
  IF dateAt = 0 \/ amountAt = 0 THEN ReturnedNull
  ELSE matchedLine(trimmedLine,
                   SubSeq(trimmedLine, dateAt, dateAt + 9),
                   SubSeq(trimmedLine, amountAt, amountEnd(trimmedLine, amountAt) - 1))

trimmedPDFLine(trimmedLine) ==
  IF Len(trimmedLine) < 10 THEN ReturnedNull
  ELSE scannedLine(trimmedLine, firstDateAt(trimmedLine), firstAmountAt(trimmedLine))

\* parsePDFLine: null for a line shorter than ten characters or without a
\* date or an amount; each pattern is matched on the whole line, at its
\* leftmost place
parsePDFLine(line) == trimmedPDFLine(trim(line))
---------------------------------------------------------------------------
(* One ingestion request                                                   *)

VARIABLES
  entry,     \* the service the route calls: "parseCSVFile" or "parseBankExtract"
  east,      \* whether the process runs in a time zone east of Greenwich
  filePath,  \* the path of the stored upload
  mimeType,  \* the MIME type the client declared
  file,      \* the content of the upload: header and rows of a table, or lines of text
  pc,        \* "start", "reading", "done"
  extractor, \* the extractor that was started, "none" before
  pos,       \* the number of rows (lines) handed to the row handler so far
  results,   \* results (parseCSVFile), transactions (parseCSV, parseExcel, parsePDF)
  errors,    \* errors (parseCSVFile)
  warnings,  \* the rows reported by console.warn (parseCSV, parseExcel)
  outcome,   \* how the promise of the service settled
  request,   \* the call under observation: the function and its arguments
  call,      \* where the call to categorizeTransaction in progress stands
  answers,   \* what the calls made so far returned, in order
  categories,\* the rows of the categories table, in the order SELECT returns them
  sequence,  \* the last id AUTOINCREMENT gave a category, 0 for a table without it
  used,      \* the category ids that rows of the transactions table refer to
  changes,   \* the number of changes made to the categories table
  logged,    \* the number of lines learnFromCorrection wrote to the console
  disk,      \* the uploads directory: the content stored under each file name
  uploads,   \* the requests to the upload routes: where each stands, what it holds
  inserted,  \* the rows of the transactions table, in the order of their ids
  goals,     \* the rows of the goals table
  patches    \* the requests to PATCH /:id/progress: where each stands, what it read

vars == << entry, east, filePath, mimeType, file, pc, extractor, pos,
           results, errors, warnings, outcome,
           request, call, answers, categories, sequence, used, changes, logged,
           disk, uploads, inserted, goals, patches >>

\* No call is under observation.
NoRequest == [fn |-> "none"]

\* No call to categorizeTransaction is waiting for the database.
Idle == [at |-> "idle"]

\* the tables of the database, and the console
stored == << categories, sequence, used, changes, logged >>

\* what the goal routes work on: the goals table and the requests
progress == << goals, patches >>

\* no request to a goal route was made
NoProgress == goals = <<>> /\ patches = <<>>

\* what the upload routes work on: the uploads directory, the requests, the
\* transactions table; and what they leave alone
routes == << disk, uploads, inserted, progress >>

\* no request to an upload route or to a goal route was made
NoRoutes == disk = <<>> /\ uploads = <<>> /\ inserted = <<>> /\ NoProgress

\* what an ingestion request leaves alone: the observed call and the database
database == << request, call, answers, stored, routes >>

\* what a call to the categorizer or to a parser leaves alone: the request
ingestion == << entry, east, filePath, mimeType, file, pc, extractor, pos,
                results, errors, warnings, outcome >>

Pending == [state |-> "pending"]

Resolved(value) == [state |-> "resolved", value |-> value]

Rejected(message, detail) == [state |-> "rejected", message |-> message, detail |-> detail]

\* the object csv-parser (sheet_to_json) makes of a line under the header
rowObject(header, values) == [i \in 1..Len(header) |-> <<header[i], values[i]>>]

rowAt(i) == rowObject(file.header, file.rows[i])

lastOf(parts) == parts[Len(parts)]

\* filePath.split('.').pop()?.toLowerCase()
fileExtension(path) == toLowerCase(lastOf(splitOn(path, ".")))

\* extractorFor with a default branch that takes the file for CSV
extractorForDefaultingToCSV(fileExt) ==
  IF fileExt = <<"x", "l", "s", "x">> \/ fileExt = <<"x", "l", "s">> THEN "parseExcel"
  ELSE IF fileExt = <<"p", "d", "f">> THEN "parsePDF"
  ELSE "parseCSV"

\* the switch of parseBankExtract
extractorFor(fileExt) ==
  IF fileExt = <<"c", "s", "v">> THEN "parseCSV"
  ELSE IF fileExt = <<"x", "l", "s", "x">> \/ fileExt = <<"x", "l", "s">> THEN "parseExcel"
  ELSE IF fileExt = <<"p", "d", "f">> THEN "parsePDF"
  ELSE "unsupported"

\* parseBankExtract: the extension of the path alone selects the extractor;
\* any other extension throws before an extractor is called
dispatch(fileExt) ==
  IF extractorFor(fileExt) = "unsupported"
    THEN /\ pc' = "done"
         /\ outcome' = Rejected("Unsupported file format: ", fileExt)
         /\ UNCHANGED extractor
    ELSE /\ pc' = "reading"
         /\ extractor' = extractorFor(fileExt)
         /\ UNCHANGED outcome

ParseBankExtract ==
  /\ pc = "start" /\ entry = "parseBankExtract"
  /\ dispatch(fileExtension(filePath))
  /\ UNCHANGED << database, entry, east, filePath, mimeType, file, pos, results, errors, warnings >>

\* parseCSVFile is called: the read stream is piped into the CSV parser
ParseCSVFile ==
  /\ pc = "start" /\ entry = "parseCSVFile"
  /\ pc' = "reading"
  /\ extractor' = "parseCSVFile"
  /\ UNCHANGED << database, entry, east, filePath, mimeType, file, pos, results, errors,
                  warnings, outcome >>

\* the try and catch of the 'data' handler of parseCSVFile
pushOrCatch(transaction) ==
  IF transaction.kind = "throw"
    THEN /\ errors' = Append(errors, <<"Row parsing error: ", transaction.message>>)
         /\ UNCHANGED results
    ELSE /\ results' = Append(results, transaction.value)
         /\ UNCHANGED errors

\* the 'data' handler of parseCSVFile: the transaction of the row is pushed
\* on results, the message of a thrown Error on errors (in preview mode the
\* handler returns early once results holds 100 transactions, which changes
\* nothing: the push is already done and the stream goes on)
CsvFileData ==
  /\ pc = "reading" /\ extractor = "parseCSVFile"
  /\ pos < Len(file.rows)
  /\ pushOrCatch(parseTransactionRow(rowAt(pos + 1), east))
  /\ pos' = pos + 1
  /\ UNCHANGED << database, entry, east, filePath, mimeType, file, pc, extractor, warnings, outcome >>

\* the 'end' handler rejecting as soon as one row failed
CsvFileEndRejectingOnError ==
  /\ pc = "reading" /\ extractor = "parseCSVFile"
  /\ pos = Len(file.rows)
  /\ outcome' = IF Len(errors) > 0
                  THEN Rejected("No valid transactions found. Errors: ", errors)
                  ELSE Resolved(results)
  /\ pc' = "done"
  /\ UNCHANGED << database, entry, east, filePath, mimeType, file, extractor, pos, results,
                  errors, warnings >>

\* the 'end' handler resolving whatever the rows gave
CsvFileEndAlwaysResolving ==
  /\ pc = "reading" /\ extractor = "parseCSVFile"
  /\ pos = Len(file.rows)
  /\ outcome' = Resolved(results)
  /\ pc' = "done"
  /\ UNCHANGED << database, entry, east, filePath, mimeType, file, extractor, pos, results,
                  errors, warnings >>

\* the 'end' handler of parseCSVFile: rejects when there are errors and no
\* result, resolves with results (and without errors) otherwise
CsvFileEnd ==
  /\ pc = "reading" /\ extractor = "parseCSVFile"
  /\ pos = Len(file.rows)
  /\ outcome' = IF Len(results) = 0 /\ Len(errors) > 0
                  THEN Rejected("No valid transactions found. Errors: ", errors)
                  ELSE Resolved(results)
  /\ pc' = "done"
  /\ UNCHANGED << database, entry, east, filePath, mimeType, file, extractor, pos, results,
                  errors, warnings >>

\* the 'error' handler of parseCSVFile: the stream failed
CsvFileError ==
  /\ pc = "reading" /\ extractor = "parseCSVFile"
  /\ outcome' = Rejected("CSV parsing error: ", <<>>)
  /\ pc' = "done"
  /\ UNCHANGED << database, entry, east, filePath, mimeType, file, extractor, pos, results,
                  errors, warnings >>

\* the try and catch around parseCSVRow in parseCSV and parseExcel
pushOrWarn(transaction) ==
  /\ results' = IF transaction.kind = "return"
                  THEN Append(results, transaction.value) ELSE results
  /\ warnings' = IF transaction.kind = "throw"
                   THEN Append(warnings, pos + 1) ELSE warnings

\* the 'data' handler of parseCSV: a transaction is pushed, null is dropped,
\* a thrown Error is reported on the console
CsvData ==
  /\ pc = "reading" /\ extractor = "parseCSV"
  /\ pos < Len(file.rows)
  /\ pushOrWarn(parseCSVRow(rowAt(pos + 1)))
  /\ pos' = pos + 1
  /\ UNCHANGED << database, entry, east, filePath, mimeType, file, pc, extractor, errors, outcome >>

\* the 'end' handler of parseCSV
CsvEnd ==
  /\ pc = "reading" /\ extractor = "parseCSV"
  /\ pos = Len(file.rows)
  /\ outcome' = Resolved(results)
  /\ pc' = "done"
  /\ UNCHANGED << database, entry, east, filePath, mimeType, file, extractor, pos, results,
                  errors, warnings >>

\* the 'error' handler of parseCSV
CsvError ==
  /\ pc = "reading" /\ extractor = "parseCSV"
  /\ outcome' = Rejected("stream error", <<>>)
  /\ pc' = "done"
  /\ UNCHANGED << database, entry, east, filePath, mimeType, file, extractor, pos, results,
                  errors, warnings >>

\* one turn of the loop of parseExcel over the rows of the first sheet
ExcelRow ==
  /\ pc = "reading" /\ extractor = "parseExcel"
  /\ pos < Len(file.rows)
  /\ pushOrWarn(parseCSVRow(rowAt(pos + 1)))
  /\ pos' = pos + 1
  /\ UNCHANGED << database, entry, east, filePath, mimeType, file, pc, extractor, errors, outcome >>

\* parseExcel returns its transactions
ExcelReturn ==
  /\ pc = "reading" /\ extractor = "parseExcel"
  /\ pos = Len(file.rows)
  /\ outcome' = Resolved(results)
  /\ pc' = "done"
  /\ UNCHANGED << database, entry, east, filePath, mimeType, file, extractor, pos, results,
                  errors, warnings >>

\* XLSX.readFile throws: the catch of parseExcel rethrows
ExcelReadError ==
  /\ pc = "reading" /\ extractor = "parseExcel"
  /\ pos = 0
  /\ outcome' = Rejected("Failed to parse Excel file: ", <<>>)
  /\ pc' = "done"
  /\ UNCHANGED << database, entry, east, filePath, mimeType, file, extractor, pos, results,
                  errors, warnings >>

\* the body of the loop of parsePDF and the catch around the loop
pushOrFail(transaction) ==
  IF transaction.kind = "throw"
    THEN /\ outcome' = Rejected("Failed to parse PDF file: ", transaction.message)
         /\ pc' = "done"
         /\ UNCHANGED results
    ELSE /\ results' = IF transaction.kind = "return"
                         THEN Append(results, transaction.value) ELSE results
         /\ UNCHANGED << pc, outcome >>

\* one turn of the loop of parsePDF over the lines of the text: the Error
\* parsePDFLine lets through is caught around the whole loop and rethrown
PdfLine ==
  /\ pc = "reading" /\ extractor = "parsePDF"
  /\ pos < Len(file.lines)
  /\ pushOrFail(parsePDFLine(file.lines[pos + 1]))
  /\ pos' = pos + 1
  /\ UNCHANGED << database, entry, east, filePath, mimeType, file, extractor, errors, warnings >>

\* parsePDF returns its transactions
PdfReturn ==
  /\ pc = "reading" /\ extractor = "parsePDF"
  /\ pos = Len(file.lines)
  /\ outcome' = Resolved(results)
  /\ pc' = "done"
  /\ UNCHANGED << database, entry, east, filePath, mimeType, file, extractor, pos, results,
                  errors, warnings >>

\* fs.readFileSync or pdf() throws: the catch of parsePDF rethrows
PdfReadError ==
  /\ pc = "reading" /\ extractor = "parsePDF"
  /\ pos = 0
  /\ outcome' = Rejected("Failed to parse PDF file: ", <<>>)
  /\ pc' = "done"
  /\ UNCHANGED << database, entry, east, filePath, mimeType, file, extractor, pos, results,
                  errors, warnings >>

Next ==
  \/ ParseBankExtract
  \/ ParseCSVFile
  \/ CsvFileData
  \/ CsvFileEnd
  \/ CsvFileError
  \/ CsvData
  \/ CsvEnd
  \/ CsvError
  \/ ExcelRow
  \/ ExcelReturn
  \/ ExcelReadError
  \/ PdfLine
  \/ PdfReturn
  \/ PdfReadError
---------------------------------------------------------------------------
(* The categorization service: categorizationService.ts                     *)

\* the category a call gave: none (null), or the id of a row of the table
NoId == [found |-> FALSE, id |-> <<>>]

Id(id) == [found |-> TRUE, id |-> id]

expenseRules == <<
  [ id |-> 1, name |-> <<"F", "o", "o", "d", " ", "&", " ", "D", "i", "n", "i", "n", "g">>,
    keywords |-> <<
      <<"r", "e", "s", "t", "a", "u", "r", "a", "n", "t">>, <<"c", "a", "f", "e">>, <<"c", "o", "f", "f", "e", "e">>, <<"s", "t", "a", "r", "b", "u", "c", "k", "s">>, <<"m", "c", "d", "o", "n", "a", "l", "d", "s">>,
      <<"s", "u", "b", "w", "a", "y">>, <<"p", "i", "z", "z", "a">>, <<"g", "r", "o", "c", "e", "r", "y">>, <<"s", "u", "p", "e", "r", "m", "a", "r", "k", "e", "t">>, <<"w", "a", "l", "m", "a", "r", "t">>,
      <<"t", "a", "r", "g", "e", "t">>, <<"s", "a", "f", "e", "w", "a", "y">>, <<"k", "r", "o", "g", "e", "r">>, <<"f", "o", "o", "d">>, <<"d", "i", "n", "i", "n", "g">>, <<"l", "u", "n", "c", "h">>,
      <<"d", "i", "n", "n", "e", "r">>, <<"b", "r", "e", "a", "k", "f", "a", "s", "t">>, <<"t", "a", "k", "e", "o", "u", "t">>, <<"d", "e", "l", "i", "v", "e", "r", "y">>, <<"u", "b", "e", "r", " ", "e", "a", "t", "s">>,
      <<"d", "o", "o", "r", "d", "a", "s", "h">>, <<"g", "r", "u", "b", "h", "u", "b">>, <<"p", "o", "s", "t", "m", "a", "t", "e", "s">> >> ],
  [ id |-> 2, name |-> <<"T", "r", "a", "n", "s", "p", "o", "r", "t", "a", "t", "i", "o", "n">>,
    keywords |-> <<
      <<"g", "a", "s">>, <<"f", "u", "e", "l">>, <<"s", "h", "e", "l", "l">>, <<"e", "x", "x", "o", "n">>, <<"c", "h", "e", "v", "r", "o", "n">>, <<"b", "p">>, <<"m", "o", "b", "i", "l">>,
      <<"u", "b", "e", "r">>, <<"l", "y", "f", "t">>, <<"t", "a", "x", "i">>, <<"b", "u", "s">>, <<"t", "r", "a", "i", "n">>, <<"m", "e", "t", "r", "o">>, <<"p", "a", "r", "k", "i", "n", "g">>,
      <<"c", "a", "r", " ", "p", "a", "y", "m", "e", "n", "t">>, <<"a", "u", "t", "o">>, <<"i", "n", "s", "u", "r", "a", "n", "c", "e">>, <<"d", "m", "v">>, <<"r", "e", "g", "i", "s", "t", "r", "a", "t", "i", "o", "n">>,
      <<"m", "e", "c", "h", "a", "n", "i", "c">>, <<"r", "e", "p", "a", "i", "r">>, <<"o", "i", "l", " ", "c", "h", "a", "n", "g", "e">>, <<"t", "i", "r", "e">> >> ],
  [ id |-> 3, name |-> <<"S", "h", "o", "p", "p", "i", "n", "g">>,
    keywords |-> <<
      <<"a", "m", "a", "z", "o", "n">>, <<"e", "b", "a", "y">>, <<"s", "h", "o", "p", "p", "i", "n", "g">>, <<"m", "a", "l", "l">>, <<"s", "t", "o", "r", "e">>, <<"r", "e", "t", "a", "i", "l">>,
      <<"c", "l", "o", "t", "h", "i", "n", "g">>, <<"c", "l", "o", "t", "h", "e", "s">>, <<"s", "h", "o", "e", "s">>, <<"f", "a", "s", "h", "i", "o", "n">>, <<"e", "l", "e", "c", "t", "r", "o", "n", "i", "c", "s">>,
      <<"b", "e", "s", "t", " ", "b", "u", "y">>, <<"a", "p", "p", "l", "e", " ", "s", "t", "o", "r", "e">>, <<"c", "o", "s", "t", "c", "o">>, <<"h", "o", "m", "e", " ", "d", "e", "p", "o", "t">>, <<"l", "o", "w", "e", "s">> >> ],
  [ id |-> 4, name |-> <<"E", "n", "t", "e", "r", "t", "a", "i", "n", "m", "e", "n", "t">>,
    keywords |-> <<
      <<"n", "e", "t", "f", "l", "i", "x">>, <<"s", "p", "o", "t", "i", "f", "y">>, <<"h", "u", "l", "u">>, <<"d", "i", "s", "n", "e", "y">>, <<"a", "m", "a", "z", "o", "n", " ", "p", "r", "i", "m", "e">>,
      <<"m", "o", "v", "i", "e">>, <<"c", "i", "n", "e", "m", "a">>, <<"t", "h", "e", "a", "t", "e", "r">>, <<"c", "o", "n", "c", "e", "r", "t">>, <<"g", "a", "m", "e">>, <<"g", "a", "m", "i", "n", "g">>,
      <<"s", "t", "e", "a", "m">>, <<"p", "l", "a", "y", "s", "t", "a", "t", "i", "o", "n">>, <<"x", "b", "o", "x">>, <<"e", "n", "t", "e", "r", "t", "a", "i", "n", "m", "e", "n", "t">>, <<"f", "u", "n">>, <<"b", "a", "r">>,
      <<"c", "l", "u", "b">>, <<"p", "u", "b">>, <<"d", "r", "i", "n", "k", "s">> >> ],
  [ id |-> 5, name |-> <<"B", "i", "l", "l", "s", " ", "&", " ", "U", "t", "i", "l", "i", "t", "i", "e", "s">>,
    keywords |-> <<
      <<"e", "l", "e", "c", "t", "r", "i", "c">>, <<"e", "l", "e", "c", "t", "r", "i", "c", "i", "t", "y">>, <<"p", "g", "e">>, <<"u", "t", "i", "l", "i", "t", "y">>, <<"w", "a", "t", "e", "r">>, <<"s", "e", "w", "e", "r">>,
      <<"i", "n", "t", "e", "r", "n", "e", "t">>, <<"c", "o", "m", "c", "a", "s", "t">>, <<"v", "e", "r", "i", "z", "o", "n">>, <<"a", "t", "t">>, <<"p", "h", "o", "n", "e">>, <<"c", "e", "l", "l">>,
      <<"r", "e", "n", "t">>, <<"m", "o", "r", "t", "g", "a", "g", "e">>, <<"l", "o", "a", "n">>, <<"c", "r", "e", "d", "i", "t", " ", "c", "a", "r", "d">>, <<"p", "a", "y", "m", "e", "n", "t">>,
      <<"i", "n", "s", "u", "r", "a", "n", "c", "e">>, <<"b", "i", "l", "l">>, <<"s", "u", "b", "s", "c", "r", "i", "p", "t", "i", "o", "n">> >> ],
  [ id |-> 6, name |-> <<"H", "e", "a", "l", "t", "h", "c", "a", "r", "e">>,
    keywords |-> <<
      <<"d", "o", "c", "t", "o", "r">>, <<"m", "e", "d", "i", "c", "a", "l">>, <<"h", "o", "s", "p", "i", "t", "a", "l">>, <<"p", "h", "a", "r", "m", "a", "c", "y">>, <<"c", "v", "s">>,
      <<"w", "a", "l", "g", "r", "e", "e", "n", "s">>, <<"d", "e", "n", "t", "i", "s", "t">>, <<"d", "e", "n", "t", "a", "l">>, <<"h", "e", "a", "l", "t", "h">>, <<"m", "e", "d", "i", "c", "i", "n", "e">>,
      <<"p", "r", "e", "s", "c", "r", "i", "p", "t", "i", "o", "n">>, <<"c", "l", "i", "n", "i", "c">>, <<"u", "r", "g", "e", "n", "t", " ", "c", "a", "r", "e">>, <<"i", "n", "s", "u", "r", "a", "n", "c", "e">> >> ] >>

incomeRules == <<
  [ id |-> 7, name |-> <<"I", "n", "c", "o", "m", "e">>,
    keywords |-> <<
      <<"s", "a", "l", "a", "r", "y">>, <<"p", "a", "y", "r", "o", "l", "l">>, <<"w", "a", "g", "e">>, <<"i", "n", "c", "o", "m", "e">>, <<"d", "e", "p", "o", "s", "i", "t">>,
      <<"d", "i", "r", "e", "c", "t", " ", "d", "e", "p", "o", "s", "i", "t">>, <<"p", "a", "y", "c", "h", "e", "c", "k">>, <<"p", "a", "y">>, <<"e", "m", "p", "l", "o", "y", "e", "r">>, <<"w", "o", "r", "k">>,
      <<"f", "r", "e", "e", "l", "a", "n", "c", "e">>, <<"c", "o", "n", "s", "u", "l", "t", "i", "n", "g">>, <<"b", "o", "n", "u", "s">>, <<"c", "o", "m", "m", "i", "s", "s", "i", "o", "n">>, <<"r", "e", "f", "u", "n", "d">>,
      <<"c", "a", "s", "h", "b", "a", "c", "k">>, <<"i", "n", "t", "e", "r", "e", "s", "t">>, <<"d", "i", "v", "i", "d", "e", "n", "d">> >> ] >>

getCategoryRules(type) == IF type = "expense" THEN expenseRules ELSE incomeRules

startsWith(s, prefix) ==
  Len(prefix) <= Len(s) /\ SubSeq(s, 1, Len(prefix)) = prefix

endsWith(s, suffix) ==
  Len(suffix) <= Len(s) /\ SubSeq(s, Len(s) - Len(suffix) + 1, Len(s)) = suffix

\* keywords.includes(word)
listed(keywords, word) == \E i \in 1..Len(keywords) : keywords[i] = word

\* what one keyword, already lower-cased, adds to the score
wordScore(description, keyword) ==
  IF ~includes(description, keyword) THEN 0
  ELSE IF \/ includes(description, <<" ">> \o keyword \o <<" ">>)
          \/ startsWith(description, keyword \o <<" ">>)
          \/ endsWith(description, <<" ">> \o keyword)
    THEN 10
  ELSE 5

keywordScore(description, keywords) ==
  LET sum[i \in 0..Len(keywords)] ==
        IF i = 0 THEN 0
        ELSE sum[i - 1] + wordScore(description, toLowerCase(keywords[i]))
  IN sum[Len(keywords)]

\* scoring by keywords alone
amountBoostNone(keywords, amount, type) == 0

\* the boost of the amount-based rules; amounts are in cents
amountBoost(keywords, amount, type) ==
  IF type # "expense" THEN 0
  ELSE IF amount > 100000
    THEN IF \/ listed(keywords, <<"r", "e", "n", "t">>) \/ listed(keywords, <<"m", "o", "r", "t", "g", "a", "g", "e">>)
            \/ listed(keywords, <<"c", "a", "r">>)
           THEN 2 ELSE 0
  ELSE IF amount < 5000
    THEN IF \/ listed(keywords, <<"c", "o", "f", "f", "e", "e">>) \/ listed(keywords, <<"f", "o", "o", "d">>)
            \/ listed(keywords, <<"s", "n", "a", "c", "k">>)
           THEN 2 ELSE 0
  ELSE 0

calculateMatchScore(description, keywords, amount, type) ==
  keywordScore(description, keywords) + amountBoost(keywords, amount, type)

\* categoryRules.find(r => r.name.toLowerCase() === category.name.toLowerCase()):
\* the place of the first such rule, 0 when there is none
ruleNamed(categoryRules, lowerName) ==
  LET same == {r \in 1..Len(categoryRules) :
                 toLowerCase(categoryRules[r].name) = lowerName}
  IN IF same = {} THEN 0 ELSE SetMin(same)

findRule(categoryRules, name) == ruleNamed(categoryRules, toLowerCase(name))

\* the score of a row of the table: that of its rule, 0 without a rule
scoreOfRule(categoryRules, r, description, amount, type) ==
  IF r = 0 THEN 0
  ELSE calculateMatchScore(description, categoryRules[r].keywords, amount, type)

NoMatch == [row |-> 0, score |-> 0]

\* the loop over the rows of the table: a row replaces the best match when
\* its score is above 0 and above the score of the best match
betterOf(best, row, score) ==
  IF score > 0 /\ (best.row = 0 \/ score > best.score)
    THEN [row |-> row, score |-> score]
    ELSE best

bestMatch(rows, categoryRules, description, amount, type) ==
  LET best[i \in 0..Len(rows)] ==
        IF i = 0 THEN NoMatch
        ELSE betterOf(best[i - 1], i,
                      scoreOfRule(categoryRules, findRule(categoryRules, rows[i].name),
                                  description, amount, type))
  IN best[Len(rows)]

\* categories.find(c => c.name.toLowerCase() === name)
findNamed(rows, name) ==
  LET same == {i \in 1..Len(rows) : toLowerCase(rows[i].name) = name}
  IN IF same = {} THEN 0 ELSE SetMin(same)

idAt(rows, i) == IF i = 0 THEN NoId ELSE Id(rows[i].id)

\* a default by type alone: Income for an income, Other for an expense
getDefaultCategoryIdOfType(type, rows) ==
  IF type = "income"
    THEN idAt(rows, findNamed(rows, <<"i", "n", "c", "o", "m", "e">>))
    ELSE idAt(rows, findNamed(rows, <<"o", "t", "h", "e", "r">>))

getDefaultCategoryId(type, rows) ==
  IF type = "income" /\ findNamed(rows, <<"i", "n", "c", "o", "m", "e">>) # 0
    THEN idAt(rows, findNamed(rows, <<"i", "n", "c", "o", "m", "e">>))
    ELSE idAt(rows, findNamed(rows, <<"o", "t", "h", "e", "r">>))

matchOrDefault(best, type, rows) ==
  IF best.row # 0 THEN Id(rows[best.row].id) ELSE getDefaultCategoryId(type, rows)

\* a categorizer that stops scoring once a correction was learned or an
\* upload stored a category
categorizeTransactionLearning(rows, description, amount, type) ==
  IF Len(rows) = 0 THEN NoId
  ELSE IF logged > 0 \/ used # {} THEN getDefaultCategoryId(type, rows)
  ELSE matchOrDefault(bestMatch(rows, getCategoryRules(type),
                                trim(toLowerCase(description)), amount, type),
                      type, rows)

\* categorizeTransaction once dbAll has returned the rows of the table
categorizeTransaction(rows, description, amount, type) ==
  IF Len(rows) = 0 THEN NoId
  ELSE matchOrDefault(bestMatch(rows, getCategoryRules(type),
                                trim(toLowerCase(description)), amount, type),
                      type, rows)
---------------------------------------------------------------------------
(* Calls of the parsers and of the categorizer; the category routes        *)

\* the longest run of calls that feed a result back into the function
MaxCalls == 2

Answer(argument, value) == [of |-> argument, value |-> value]

\* the argument of the next call: the text of the request, then the text
\* the call before returned
nextArgument(lastValue) ==
  IF answers = <<>> THEN request.text ELSE lastValue

\* parseNumber(value)
ParseNumber ==
  /\ request.fn = "parseNumber"
  /\ answers = <<>>
  /\ answers' = << Answer(request.text, parseNumber(request.text)) >>
  /\ UNCHANGED << ingestion, routes, request, call, stored >>

\* parseDate(dateString), and parseDate of the text it returned
ParseDate ==
  /\ request.fn = "parseDate"
  /\ Len(answers) < MaxCalls
  /\ answers # <<>> => answers[Len(answers)].value # <<>>
  /\ answers' =
       Append(answers,
              Answer(nextArgument(answers[Len(answers)].value),
                     parseDate(nextArgument(answers[Len(answers)].value), east)))
  /\ UNCHANGED << ingestion, routes, request, call, stored >>

\* normalizeDate(dateStr), and normalizeDate of the text it returned
NormalizeDate ==
  /\ request.fn = "normalizeDate"
  /\ Len(answers) < MaxCalls
  /\ answers # <<>> => answers[Len(answers)].value.kind = "return"
  /\ answers' =
       Append(answers,
              Answer(nextArgument(answers[Len(answers)].value.value),
                     normalizeDate(nextArgument(answers[Len(answers)].value.value))))
  /\ UNCHANGED << ingestion, routes, request, call, stored >>

NextCall == ParseNumber \/ ParseDate \/ NormalizeDate

\* the most other operations that run beside the observed calls
MaxOthers == 1

\* the other operations run so far: the changes of the categories table,
\* the corrections learned, the uploads that stored a category
others == changes + logged + Cardinality(used)

Category(id, name) == [id |-> id, name |-> name]

\* an id of the INTEGER column, written in decimal
idText(n) == IF n < 10 THEN padDigits(n, 1) ELSE padDigits(n, 2)

named(rows, name) == \E i \in 1..Len(rows) : rows[i].name = name

place(rows, id) ==
  LET at == {i \in 1..Len(rows) : rows[i].id = id}
  IN IF at = {} THEN 0 ELSE SetMin(at)

\* what a call met and gave: whether dbAll failed, the rows it returned, the
\* number of other operations that had run by then, the category returned,
\* whether the promise was rejected instead
Read(rows, id) ==
  [failed |-> FALSE, read |-> rows, after |-> others, id |-> id, threw |-> FALSE]

\* a call without the catch block: the error of dbAll reaches the caller
ReadFailedRethrown ==
  [failed |-> TRUE, read |-> <<>>, after |-> others, id |-> NoId, threw |-> TRUE]

ReadFailed ==
  [failed |-> TRUE, read |-> <<>>, after |-> others, id |-> NoId, threw |-> FALSE]

\* categorizeTransaction(description, amount, type) up to its await of dbAll
CategorizeCall ==
  /\ request.fn = "categorizeTransaction"
  /\ call = Idle
  /\ Len(answers) < MaxCalls
  /\ call' = [at |-> "dbAll"]
  /\ UNCHANGED << ingestion, routes, request, answers, stored >>

\* dbAll resolves with the rows of the table and the call returns
CategorizeRead ==
  /\ call.at = "dbAll"
  /\ answers' =
       Append(answers,
              Read(categories,
                   categorizeTransaction(categories, request.description,
                                         request.amount, request.type)))
  /\ call' = Idle
  /\ UNCHANGED << ingestion, routes, request, stored >>

\* dbAll rejects: the catch block logs the error and returns null
CategorizeReadFails ==
  /\ call.at = "dbAll"
  /\ answers' = Append(answers, ReadFailed)
  /\ call' = Idle
  /\ UNCHANGED << ingestion, routes, request, stored >>

\* POST /categories: a name already in the table is refused (409)
CreateCategory(name) ==
  /\ sequence > 0
  /\ others < MaxOthers
  /\ truthy(name)
  /\ ~named(categories, trim(name))
  /\ categories' = Append(categories, Category(idText(sequence + 1), trim(name)))
  /\ sequence' = sequence + 1
  /\ changes' = changes + 1
  /\ UNCHANGED << ingestion, routes, request, call, answers, used, logged >>

\* name?.trim() || existingCategory.name
newName(name, existing) == IF truthy(trim(name)) THEN trim(name) ELSE existing

renamed(rows, at, name) ==
  [i \in 1..Len(rows) |-> IF i = at THEN Category(rows[i].id, name) ELSE rows[i]]

\* PUT /categories/:id: an unknown id is refused (404), a name another
\* category has is refused (409)
UpdateCategory(id, name) ==
  /\ sequence > 0
  /\ others < MaxOthers
  /\ place(categories, id) # 0
  /\ \A i \in 1..Len(categories) :
       categories[i].name = newName(name, categories[place(categories, id)].name)
         => i = place(categories, id)
  /\ categories' =
       renamed(categories, place(categories, id),
               newName(name, categories[place(categories, id)].name))
  /\ changes' = changes + 1
  /\ UNCHANGED << ingestion, routes, request, call, answers, sequence, used, logged >>

\* DELETE /categories/:id: an unknown id is refused (404), a category that
\* transactions refer to is refused (409)
DeleteCategory(id) ==
  /\ sequence > 0
  /\ others < MaxOthers
  /\ place(categories, id) # 0
  /\ id \notin used
  /\ categories' = SelectSeq(categories, LAMBDA c : c.id # id)
  /\ changes' = changes + 1
  /\ UNCHANGED << ingestion, routes, request, call, answers, sequence, used, logged >>

\* learnFromCorrection(description, amount, type, correctCategoryId): one
\* line on the console
LearnFromCorrection ==
  /\ others < MaxOthers
  /\ logged' = logged + 1
  /\ UNCHANGED << ingestion, routes, request, call, answers, categories, sequence, used,
                  changes >>

usedWith(categoryId) == IF categoryId.found THEN used \cup {categoryId.id} ELSE used

\* POST /upload/csv of a file with one transaction: the transaction is
\* categorized when auto_categorize is 'true' and inserted with that category
Upload(transaction, autoCategorize) ==
  /\ others < MaxOthers
  /\ used' =
       IF autoCategorize
         THEN usedWith(categorizeTransaction(categories, transaction.description,
                                             transaction.amount, transaction.type))
         ELSE used
  /\ UNCHANGED << ingestion, routes, request, call, answers, categories, sequence, changes,
                  logged >>
---------------------------------------------------------------------------
(* The upload routes: POST /csv and POST /validate                         *)

\* the requests to the upload routes that are in progress together
Uploaders == {1, 2}

\* the rows at which preview mode is meant to stop
PreviewLimit == 100

\* file.fieldname + '-' + Date.now() + '-' + Math.round(Math.random() * 1E9)
\* + path.extname(file.originalname)
uploadName(now, random) == <<"f", "i", "l", "e", "-">> \o now \o <<"-">> \o random \o <<".", "c", "s", "v">>

Response(status, transactions, failed) ==
  [status |-> status, transactions |-> transactions,
   count |-> Len(transactions), errors |-> failed]

\* no answer was sent yet
NoResponse == [status |-> 0, transactions |-> <<>>, count |-> 0, errors |-> <<>>]

\* no file under the name, no file part in the request
NoFile == [isNull |-> TRUE, val |-> [header |-> <<>>, rows |-> <<>>, lines |-> <<>>]]

\* a file and the table it holds
FileOf(table) == [isNull |-> FALSE, val |-> table]

\* the answer of POST /validate: the first 5 transactions and total_count
Preview(transactions) ==
  [status |-> 200,
   transactions |-> SubSeq(transactions, 1, IF Len(transactions) < 5 THEN Len(transactions) ELSE 5),
   count |-> Len(transactions), errors |-> <<>>]

\* a request as it arrives: the route, the file part (none when the request
\* has no file or the fileFilter refused it), auto_categorize of the body
UploadRequest(route, sent, autoCategorize) ==
  [route |-> route, sent |-> sent, autoCategorize |-> autoCategorize,
   at |-> "sent", path |-> <<>>, content |-> NoFile.val, pos |-> 0,
   lists |-> [results |-> <<>>, errors |-> <<>>], parsed |-> Pending, i |-> 0,
   processed |-> <<>>, errors |-> <<>>, response |-> NoResponse]

\* the 'data' handler pushing a transaction on results: in preview mode the
\* handler returns once results holds 100, which ends that call of the
\* handler and leaves the stream running
pushed(list, transaction, previewMode) ==
  IF previewMode /\ Len(list) + 1 >= PreviewLimit
    THEN Append(list, transaction)
    ELSE Append(list, transaction)

\* the 'data' handler of parseCSVFile on one row: the transaction is pushed
\* on results, the message of a thrown Error on errors
handledRow(lists, transaction, previewMode) ==
  IF transaction.kind = "throw"
    THEN [lists EXCEPT !.errors = Append(@, <<"Row parsing error: ", transaction.message>>)]
    ELSE [lists EXCEPT !.results = pushed(@, transaction.value, previewMode)]

\* the 'end' handler of parseCSVFile
settled(lists) ==
  IF Len(lists.results) = 0 /\ Len(lists.errors) > 0
    THEN Rejected("No valid transactions found. Errors: ", lists.errors)
    ELSE Resolved(lists.results)

\* multer's diskStorage writes the file of the request under the name
\* filename() made, over what the name held
StoreUpload(r, now, random) ==
  /\ uploads[r].at = "sent"
  /\ ~uploads[r].sent.isNull
  /\ disk' = [disk EXCEPT ![uploadName(now, random)] = uploads[r].sent]
  /\ uploads' = [uploads EXCEPT ![r].at = "stored",
                                ![r].path = uploadName(now, random)]
  /\ UNCHANGED << ingestion, progress, request, call, answers, stored, inserted >>

\* if (!req.file): 400 'No file uploaded'
NoFileUploaded(r) ==
  /\ uploads[r].at = "sent"
  /\ uploads[r].sent.isNull
  /\ uploads' = [uploads EXCEPT ![r].at = "done",
                                ![r].response = Response(400, <<>>, <<>>)]
  /\ UNCHANGED << ingestion, progress, request, call, answers, stored, disk, inserted >>

\* the handler calls parseCSVFile(filePath, previewMode): the stream opens
\* the file at the path and reads what it holds; without a file the stream
\* emits 'error' and the promise is rejected
OpenUpload(r) ==
  /\ uploads[r].at = "stored"
  /\ uploads' =
       IF disk[uploads[r].path].isNull
         THEN [uploads EXCEPT ![r].at = "parsed",
                              ![r].parsed = Rejected("CSV parsing error: ", <<>>)]
         ELSE [uploads EXCEPT ![r].at = "reading",
                              ![r].content = disk[uploads[r].path].val]
  /\ UNCHANGED << ingestion, progress, request, call, answers, stored, disk, inserted >>

\* the stream emits the next row: the 'data' handler of parseCSVFile
DataUpload(r) ==
  /\ uploads[r].at = "reading"
  /\ uploads[r].pos < Len(uploads[r].content.rows)
  /\ uploads' =
       [uploads EXCEPT
          ![r].pos = @ + 1,
          ![r].lists =
             handledRow(@, parseTransactionRow(
                              rowObject(uploads[r].content.header,
                                        uploads[r].content.rows[uploads[r].pos + 1]),
                              east),
                        uploads[r].route = "validate")]
  /\ UNCHANGED << ingestion, progress, request, call, answers, stored, disk, inserted >>

\* the stream ends: the 'end' handler settles the promise
EndUpload(r) ==
  /\ uploads[r].at = "reading"
  /\ uploads[r].pos = Len(uploads[r].content.rows)
  /\ uploads' = [uploads EXCEPT ![r].at = "parsed",
                                ![r].parsed = settled(uploads[r].lists)]
  /\ UNCHANGED << ingestion, progress, request, call, answers, stored, disk, inserted >>

\* fs.unlinkSync in a try whose catch only logs
unlinked(path) == [disk EXCEPT ![path] = NoFile]

\* POST /csv after await parseCSVFile: a rejection goes to the catch block
\* (unlink, 500); an empty list is answered with 400 at once; otherwise the
\* loop over the transactions starts
CsvParsed(r) ==
  /\ uploads[r].route = "csv"
  /\ uploads[r].at = "parsed"
  /\ IF uploads[r].parsed.state = "rejected"
       THEN /\ disk' = unlinked(uploads[r].path)
            /\ uploads' = [uploads EXCEPT ![r].at = "done",
                             ![r].response = Response(500, <<>>, <<>>)]
       ELSE IF Len(uploads[r].parsed.value) = 0
         THEN /\ uploads' = [uploads EXCEPT ![r].at = "done",
                               ![r].response = Response(400, <<>>, <<>>)]
              /\ UNCHANGED disk
         ELSE /\ uploads' = [uploads EXCEPT ![r].at = "rows"]
              /\ UNCHANGED disk
  /\ UNCHANGED << ingestion, progress, request, call, answers, stored, inserted >>

\* the row INSERT makes of a transaction, as SELECT t.* returns it
created(id, transaction, categoryId) ==
  [id |-> id, amount |-> transaction.amount, description |-> transaction.description,
   category_id |-> categoryId, type |-> transaction.type, date |-> transaction.date]

categoryFor(autoCategorize, transaction) ==
  IF autoCategorize
    THEN categorizeTransaction(categories, transaction.description,
                               transaction.amount, transaction.type)
    ELSE NoId

\* the row is inserted and pushed on processedTransactions, or an error of
\* the database puts the transaction on errors
rowInserted(r, transaction, insertFails, row) ==
  IF insertFails
    THEN /\ uploads' =
              [uploads EXCEPT
                 ![r].i = @ + 1,
                 ![r].errors = Append(@, [row |-> uploads[r].i + 1,
                                          transaction |-> transaction])]
         /\ UNCHANGED inserted
    ELSE /\ inserted' = Append(inserted, row)
         /\ uploads' = [uploads EXCEPT ![r].i = @ + 1,
                                       ![r].processed = Append(@, row)]

\* one turn of the loop of POST /csv: the transaction is categorized when
\* auto_categorize is 'true', inserted and read back
CsvRow(r, insertFails) ==
  /\ uploads[r].at = "rows"
  /\ uploads[r].i < Len(uploads[r].parsed.value)
  /\ rowInserted(r, uploads[r].parsed.value[uploads[r].i + 1], insertFails,
                 created(Len(inserted) + 1,
                         uploads[r].parsed.value[uploads[r].i + 1],
                         categoryFor(uploads[r].autoCategorize,
                                     uploads[r].parsed.value[uploads[r].i + 1])))
  /\ UNCHANGED << ingestion, progress, request, call, answers, stored, disk >>

\* POST /csv after the loop: fs.unlinkSync(filePath) and the answer; when
\* the file is gone unlinkSync throws and the catch block answers 500
CsvDone(r) ==
  /\ uploads[r].at = "rows"
  /\ uploads[r].i = Len(uploads[r].parsed.value)
  /\ disk' = unlinked(uploads[r].path)
  /\ uploads' =
       [uploads EXCEPT
          ![r].at = "done",
          ![r].response =
             IF disk[uploads[r].path].isNull
               THEN Response(500, <<>>, <<>>)
               ELSE Response(200, uploads[r].processed, uploads[r].errors)]
  /\ UNCHANGED << ingestion, progress, request, call, answers, stored, inserted >>

\* POST /validate after await parseCSVFile(filePath, true): the file is
\* unlinked and the list answered; a rejection, or a file that is gone,
\* goes to the catch block (unlink, 400)
ValidateParsed(r) ==
  /\ uploads[r].route = "validate"
  /\ uploads[r].at = "parsed"
  /\ disk' = unlinked(uploads[r].path)
  /\ uploads' =
       [uploads EXCEPT
          ![r].at = "done",
          ![r].response =
             IF uploads[r].parsed.state = "rejected" \/ disk[uploads[r].path].isNull
               THEN Response(400, <<>>, <<>>)
               ELSE Preview(uploads[r].parsed.value)]
  /\ UNCHANGED << ingestion, progress, request, call, answers, stored, inserted >>
---------------------------------------------------------------------------
(* The goal routes: PATCH /:id/progress                                    *)

\* the requests to PATCH /:id/progress that are in progress together
Patchers == {1, 2}

\* current_amount DECIMAL(10, 2) DEFAULT 0, in hundredths
DefaultAmount == 0

Goal(id, current, target, status) ==
  [id |-> id, current_amount |-> current, target_amount |-> target, status |-> status]

\* no row: what dbGet resolves with when the SELECT finds none
NoGoal == [id |-> <<>>, current_amount |-> 0, target_amount |-> 0, status |-> "none"]

\* a request as it arrives: req.params.id and req.body.amount (not a number
\* when the body holds none or a string)
PatchRequest(id, amount) ==
  [id |-> id, amount |-> amount, at |-> "sent", existingGoal |-> NoGoal,
   status |-> 0, updatedGoal |-> NoGoal]

\* SELECT * FROM goals WHERE id = ?
goalOf(rows, id) ==
  IF \E i \in 1..Len(rows) : rows[i].id = id
    THEN rows[SetMin({i \in 1..Len(rows) : rows[i].id = id})]
    ELSE NoGoal

\* Math.max(0, existingGoal.current_amount + amount)
newCurrentAmount(existingGoal, amount) ==
  IF existingGoal.current_amount + amount < 0 THEN 0
  ELSE existingGoal.current_amount + amount

\* newCurrentAmount >= existingGoal.target_amount ? 'completed' : existingGoal.status
newStatus(existingGoal, amount) ==
  IF newCurrentAmount(existingGoal, amount) >= existingGoal.target_amount
    THEN "completed" ELSE existingGoal.status

\* UPDATE goals SET current_amount = ?, status = ? WHERE id = ?
updatedRows(rows, id, current, status) ==
  [i \in 1..Len(rows) |->
     IF rows[i].id = id
       THEN Goal(id, current, rows[i].target_amount, status)
       ELSE rows[i]]

\* typeof amount !== 'number': 400 'Amount must be a number'
PatchRefused(p) ==
  /\ patches[p].at = "sent"
  /\ patches[p].amount.isNull
  /\ patches' = [patches EXCEPT ![p].at = "done", ![p].status = 400]
  /\ UNCHANGED << ingestion, request, call, answers, stored, disk, uploads, inserted,
                  goals >>

\* the SELECT of the existing goal runs: without a row the answer is 404,
\* with one the handler goes on with the row it read
PatchRead(p) ==
  /\ patches[p].at = "sent"
  /\ ~patches[p].amount.isNull
  /\ patches' =
       IF goalOf(goals, patches[p].id) = NoGoal
         THEN [patches EXCEPT ![p].at = "done", ![p].status = 404]
         ELSE [patches EXCEPT ![p].at = "read",
                              ![p].existingGoal = goalOf(goals, patches[p].id)]
  /\ UNCHANGED << ingestion, request, call, answers, stored, disk, uploads, inserted,
                  goals >>

\* the UPDATE runs with the amount and the status computed from the row
\* that was read
PatchUpdate(p) ==
  /\ patches[p].at = "read"
  /\ goals' = updatedRows(goals, patches[p].id,
                          newCurrentAmount(patches[p].existingGoal, patches[p].amount.val),
                          newStatus(patches[p].existingGoal, patches[p].amount.val))
  /\ patches' = [patches EXCEPT ![p].at = "updated"]
  /\ UNCHANGED << ingestion, request, call, answers, stored, disk, uploads, inserted >>

\* the SELECT of the updated goal runs and the row is answered
PatchAnswer(p) ==
  /\ patches[p].at = "updated"
  /\ patches' = [patches EXCEPT ![p].at = "done", ![p].status = 200,
                                ![p].updatedGoal = goalOf(goals, patches[p].id)]
  /\ UNCHANGED << ingestion, request, call, answers, stored, disk, uploads, inserted,
                  goals >>
---------------------------------------------------------------------------
(* The uploads of the model                                                *)

\* the longest table (text) of Spec, in rows (lines)
MaxRows == 3

SeqsUpTo(S, n) == UNION {[1..k -> S] : k \in 0..n}

FilePaths ==
  { <<"u", "-", "a", ".", "c", "s", "v">>, <<"u", "-", "a", ".", "C", "S", "V">>, <<"u", "-", "a", ".", "x", "l", "s", "x">>, <<"u", "-", "a", ".", "x", "l", "s">>, <<"u", "-", "a", ".", "p", "d", "f">>,
    <<"u", "-", "a", ".", "d", "o", "c", "x">>, <<"u", "-", "a", ".", "c", "s", "v", ".", "t", "x", "t">>, <<"u", "-", "a">> }

MimeTypes == {"text/csv", "application/pdf"}

Table(header, rows) == [header |-> header, rows |-> rows, lines |-> <<>>]

Text(lines) == [header |-> <<>>, rows |-> <<>>, lines |-> lines]

\* a path with a spreadsheet or CSV extension holds a table, any other path
\* holds text
contentFits(path, content) ==
  IF extractorFor(fileExtension(path)) \in {"parseCSV", "parseExcel"}
    THEN content.lines = <<>>
    ELSE content.rows = <<>>

\* the requests over the given tables, texts, paths and declared MIME types:
\* the CSV service reads a table in either kind of time zone; the
\* bank-extract service, which never reads the zone, gets any of the paths
InitWith(tables, texts, paths, mimeTypes) ==
  /\ entry \in {"parseCSVFile", "parseBankExtract"}
  /\ east \in BOOLEAN
  /\ mimeType \in mimeTypes
  /\ filePath \in paths
  /\ file \in tables \cup texts
  /\ entry = "parseCSVFile" =>
       filePath = <<"u", "-", "a", ".", "c", "s", "v">> /\ mimeType = "text/csv" /\ file \in tables
  /\ entry = "parseBankExtract" => contentFits(filePath, file) /\ ~east
  /\ pc = "start"
  /\ extractor = "none"
  /\ pos = 0
  /\ results = <<>>
  /\ errors = <<>>
  /\ warnings = <<>>
  /\ outcome = Pending
  /\ request = NoRequest
  /\ call = Idle
  /\ answers = <<>>
  /\ categories = <<>>
  /\ sequence = 0
  /\ used = {}
  /\ changes = 0
  /\ logged = 0
  /\ NoRoutes

FileHeader == << <<"d", "a", "t", "e">>, <<"d", "e", "s", "c", "r", "i", "p", "t", "i", "o", "n">>, <<"a", "m", "o", "u", "n", "t">> >>

\* rows under FileHeader: two that both services accept, one without a
\* number and without a text, one without a text and without a date, one
\* whose date does not parse, one whose amount is no number
FileRows ==
  { << <<"2", "0", "2", "4", "-", "0", "1", "-", "1", "3">>, <<"R", "e", "n", "t">>, <<"-", "1", "5", "0", "0", ".", "0", "0">> >>,
    << <<"0", "1", "/", "0", "2", "/", "2", "0", "2", "4">>, <<"S", "a", "l", "a", "r", "y">>, <<"2", "5", "0", "0", ".", "0", "0">> >>,
    << <<"2", "0", "2", "4", "-", "0", "1", "-", "1", "3">>, <<>>, <<>> >>,
    << <<>>, <<>>, <<"5", ".", "0", "0">> >>,
    << <<"s", "o", "o", "n">>, <<"R", "e", "n", "t">>, <<"5", ".", "0", "0">> >>,
    << <<"2", "0", "2", "4", "-", "0", "1", "-", "1", "3">>, <<"R", "e", "n", "t">>, <<"a", "b", "c">> >> }

FileLines ==
  { <<"2", "0", "2", "3", "-", "1", "2", "-", "0", "1", " ", "R", "E", "N", "T", " ", "-", "$", "1", "0", "0", ".", "0", "0">>,
    <<"C", "O", "F", "F", "E", "E", " ", "$", "4", ".", "5", "0", " ", "o", "n", " ", "1", "2", "/", "0", "1", "/", "2", "0", "2", "3">>,
    <<"P", "a", "g", "e", " ", "1", " ", "o", "f", " ", "2">>,
    <<"9", "9", "/", "9", "9", "/", "9", "9", "9", "9", " ", "X", " ", "5", ".", "0", "0">>,
    <<"2", "0", "2", "3", "-", "1", "2", "-", "0", "1">> }

\* Spec: uploads of up to MaxRows rows or lines, one path for each extractor
\* and one that no extractor takes
Init ==
  InitWith({Table(FileHeader, rows) : rows \in SeqsUpTo(FileRows, MaxRows)},
           {Text(lines) : lines \in SeqsUpTo(FileLines, MaxRows)},
           { <<"u", "-", "a", ".", "c", "s", "v">>, <<"u", "-", "a", ".", "x", "l", "s", "x">>, <<"u", "-", "a", ".", "p", "d", "f">>, <<"u", "-", "a", ".", "d", "o", "c", "x">> },
           {"text/csv"})

Spec == Init /\ [][Next]_vars

\* SpecRow: uploads of one row or one line, over many headers and values
DateValues == { <<>>, <<"2", "0", "2", "4", "-", "0", "1", "-", "1", "3">>, <<"1", "3", "/", "0", "1", "/", "2", "0", "2", "4">>, <<"0", "1", "/", "0", "2", "/", "2", "0", "2", "4">>, <<"s", "o", "o", "n">> }

TextValues == { <<>>, <<" ">>, <<"R", "e", "n", "t">>, <<" ", "R", "e", "n", "t", " ">> }

AmountValues ==
  { <<>>, <<"1", "5", "0", "0", ".", "0", "0">>, <<"-", "5">>, <<"(", "5", ")">>, <<"0", ".", "0", "0">>, <<"a", "b", "c">>, <<"$", "1", ",", "5", "0", "0", ".", "0", "0">> }

TypeValues == { <<>>, <<"C", "r", "e", "d", "i", "t">>, <<"d", "e", "b", "i", "t">>, <<"D", "e", "b", "i", "t", " ", "C", "a", "r", "d", " ", "D", "e", "p", "o", "s", "i", "t">>, <<"o", "t", "h", "e", "r">> }

WideHeaders ==
  { << <<"T", "x", "n", " ", "D", "a", "t", "e">>, <<"M", "e", "m", "o">>, <<"D", "e", "b", "i", "t">> >>,
    << <<"D", "a", "t", "e">>, <<"M", "e", "m", "o">>, <<"D", "e", "b", "i", "t">>, <<"C", "r", "e", "d", "i", "t">> >>,
    << <<"D", "a", "t", "e">>, <<"D", "e", "s", "c", "r", "i", "p", "t", "i", "o", "n">>, <<"A", "m", "o", "u", "n", "t">>, <<"T", "y", "p", "e">> >>,
    << <<"d", "a", "t", "e">>, <<"d", "e", "s", "c", "r", "i", "p", "t", "i", "o", "n">>, <<"a", "m", "o", "u", "n", "t">> >>,
    << <<"D", "a", "t", "e">>, <<"A", "m", "o", "u", "n", "t">>, <<"T", "y", "p", "e">>, <<"C", "a", "t", "e", "g", "o", "r", "y">> >>,
    << <<"D", "a", "t", "e">>, <<"d", "a", "t", "e">>, <<"M", "e", "m", "o">>, <<"A", "m", "o", "u", "n", "t">> >>,
    << <<"D", "a", "t", "e">>, <<"M", "e", "m", "o">>, <<"T", "o", "t", "a", "l", " ", "A", "m", "o", "u", "n", "t">> >>,
    << <<"d", "a", "t", "e">>, <<"d", "e", "t", "a", "i", "l", "s">>, <<"b", "a", "l", "a", "n", "c", "e">>, <<"a", "c", "c", "o", "u", "n", "t">> >> }

\* the values a column of the label may hold
ValuesFor(label) ==
  IF includes(normalizeKey(label), <<"d", "a", "t", "e">>) THEN DateValues
  ELSE IF normalizeKey(label) \in {<<"m", "e", "m", "o">>, <<"d", "e", "s", "c", "r", "i", "p", "t", "i", "o", "n">>, <<"d", "e", "t", "a", "i", "l", "s">>, <<"a", "c", "c", "o", "u", "n", "t">>}
    THEN TextValues
  ELSE IF normalizeKey(label) \in {<<"t", "y", "p", "e">>, <<"c", "a", "t", "e", "g", "o", "r", "y">>} THEN TypeValues
  ELSE AmountValues

RowsUnder(header) ==
  IF Len(header) = 3
    THEN {<<a, b, c>> : a \in ValuesFor(header[1]), b \in ValuesFor(header[2]),
                        c \in ValuesFor(header[3])}
    ELSE {<<a, b, c, d>> : a \in ValuesFor(header[1]), b \in ValuesFor(header[2]),
                           c \in ValuesFor(header[3]), d \in ValuesFor(header[4])}

WideTables ==
  UNION {{Table(header, <<row>>) : row \in RowsUnder(header)} : header \in WideHeaders}

WideLines ==
  FileLines \cup
  { <<"2", "0", "2", "3", "-", "1", "2", "-", "0", "1", " ", "D", "E", "S", "C", "R", "I", "P", "T", "I", "O", "N", " ", "-", "$", "1", "0", "0", ".", "0", "0">>,
    <<"0", "1", "-", "1", "2", "-", "2", "0", "2", "3", " ", "P", "A", "Y", " ", "+", "$", "1", ",", "0", "0", "0", ".", "0", "0">>,
    <<"2", "0", "2", "3", "-", "1", "2", "-", "0", "1", " ", "R", "E", "F", "U", "N", "D", " ", "$", "0", ".", "0", "0">>,
    <<"-", "$", "2", "5", ".", "0", "0", " ", "A", "T", "M", " ", "2", "0", "2", "3", "-", "1", "2", "-", "0", "5">>,
    <<"0", "2", "/", "3", "0", "/", "2", "0", "2", "3", " ", "X", " ", "1", ".", "0", "0">>,
    <<" ", " ", "2", "0", "2", "3", "-", "1", "2", "-", "0", "1", " ", "+", " ", "-", " ">>,
    <<"1", "0", "0", ".", "0", "0", " ", "0", "1", "/", "1", "2", "/", "2", "0", "2", "3">>,
    <<"s", "h", "o", "r", "t">> }

InitRow ==
  InitWith(WideTables, {Text(<<line>>) : line \in WideLines},
           { <<"u", "-", "a", ".", "c", "s", "v">>, <<"u", "-", "a", ".", "x", "l", "s">>, <<"u", "-", "a", ".", "p", "d", "f">>, <<"u", "-", "a", ".", "d", "o", "c", "x">> },
           {"text/csv"})

SpecRow == InitRow /\ [][Next]_vars

\* SpecDispatch: every path under every declared MIME type, over uploads of
\* at most one row or line
InitDispatch ==
  InitWith({Table(FileHeader, rows) : rows \in SeqsUpTo(FileRows, 1)},
           {Text(lines) : lines \in SeqsUpTo(FileLines, 1)},
           FilePaths, MimeTypes)

SpecDispatch == InitDispatch /\ [][Next]_vars
---------------------------------------------------------------------------
(* The calls of the model                                                  *)

\* no upload is in progress
NoUpload ==
  /\ entry = "none"
  /\ filePath = <<>>
  /\ mimeType = "none"
  /\ file = Text(<<>>)
  /\ pc = "idle"
  /\ extractor = "none"
  /\ pos = 0
  /\ results = <<>>
  /\ errors = <<>>
  /\ warnings = <<>>
  /\ outcome = Pending

\* the longest digit string handed to parseNumber
MaxDigits == 3

DigitTexts == SeqsUpTo({"0", "5", ".", ","}, MaxDigits)

Parenthesized(d) == <<"(">> \o d \o <<")">>

NumberTexts == DigitTexts \cup {Parenthesized(d) : d \in DigitTexts}

\* the days of two years, one of them a leap year, written YYYY-MM-DD
CalendarTexts ==
  { formatYMD(<<y, m, d>>) :
      y \in {2023, 2024}, m \in 1..12, d \in {1, 12, 13, 28, 29, 30, 31} }

DateTexts ==
  CalendarTexts \cup
  { <<"0", "1", "/", "0", "2", "/", "2", "0", "2", "4">>, <<"1", "2", "/", "3", "1", "/", "2", "0", "2", "4">>, <<"1", "3", "/", "0", "1", "/", "2", "0", "2", "4">>, <<"3", "1", "/", "1", "2", "/", "2", "0", "2", "4">>, <<"0", "2", "/", "3", "0", "/", "2", "0", "2", "4">>,
    <<"0", "1", "-", "0", "2", "-", "2", "0", "2", "4">>, <<"1", "3", "-", "0", "1", "-", "2", "0", "2", "4">>, <<"3", "1", "-", "1", "2", "-", "2", "0", "2", "4">>, <<"2", "0", "2", "4", "/", "0", "1", "/", "1", "3">>, <<"1", "/", "2", "/", "2", "0", "2", "4">>,
    <<"h", "e", "l", "l", "o">>, <<>> }

CallRequest(fn, text) == [fn |-> fn, text |-> text]

InitCall ==
  /\ NoUpload
  /\ east \in BOOLEAN
  /\ request \in {CallRequest("parseNumber", t) : t \in NumberTexts}
                 \cup {CallRequest("parseDate", t) : t \in DateTexts}
                 \cup {CallRequest("normalizeDate", t) : t \in DateTexts}
  /\ request.fn = "normalizeDate" => ~east
  /\ call = Idle
  /\ answers = <<>>
  /\ categories = <<>>
  /\ sequence = 0
  /\ used = {}
  /\ changes = 0
  /\ logged = 0
  /\ NoRoutes

SpecCall == InitCall /\ [][NextCall]_vars

\* the categories initializeDatabase of part_007 installs, with the ids
\* AUTOINCREMENT gives them
installedCategories == <<
  Category(<<"1">>, <<"F", "o", "o", "d", " ", "&", " ", "D", "i", "n", "i", "n", "g">>), Category(<<"2">>, <<"T", "r", "a", "n", "s", "p", "o", "r", "t", "a", "t", "i", "o", "n">>),
  Category(<<"3">>, <<"S", "h", "o", "p", "p", "i", "n", "g">>), Category(<<"4">>, <<"E", "n", "t", "e", "r", "t", "a", "i", "n", "m", "e", "n", "t">>),
  Category(<<"5">>, <<"B", "i", "l", "l", "s", " ", "&", " ", "U", "t", "i", "l", "i", "t", "i", "e", "s">>), Category(<<"6">>, <<"H", "e", "a", "l", "t", "h", "c", "a", "r", "e">>),
  Category(<<"7">>, <<"I", "n", "c", "o", "m", "e">>), Category(<<"8">>, <<"O", "t", "h", "e", "r">>) >>

\* the categories insertDefaultCategories of database/init.ts installs
insertDefaultCategories == <<
  Category(<<"i", "n", "c", "o", "m", "e", "-", "s", "a", "l", "a", "r", "y">>, <<"S", "a", "l", "a", "r", "y">>),
  Category(<<"i", "n", "c", "o", "m", "e", "-", "f", "r", "e", "e", "l", "a", "n", "c", "e">>, <<"F", "r", "e", "e", "l", "a", "n", "c", "e">>),
  Category(<<"i", "n", "c", "o", "m", "e", "-", "i", "n", "v", "e", "s", "t", "m", "e", "n", "t">>, <<"I", "n", "v", "e", "s", "t", "m", "e", "n", "t">>),
  Category(<<"i", "n", "c", "o", "m", "e", "-", "o", "t", "h", "e", "r">>, <<"O", "t", "h", "e", "r", " ", "I", "n", "c", "o", "m", "e">>),
  Category(<<"e", "x", "p", "e", "n", "s", "e", "-", "f", "o", "o", "d">>, <<"F", "o", "o", "d", " ", "&", " ", "D", "i", "n", "i", "n", "g">>),
  Category(<<"e", "x", "p", "e", "n", "s", "e", "-", "t", "r", "a", "n", "s", "p", "o", "r", "t">>, <<"T", "r", "a", "n", "s", "p", "o", "r", "t", "a", "t", "i", "o", "n">>),
  Category(<<"e", "x", "p", "e", "n", "s", "e", "-", "h", "o", "u", "s", "i", "n", "g">>, <<"H", "o", "u", "s", "i", "n", "g">>),
  Category(<<"e", "x", "p", "e", "n", "s", "e", "-", "u", "t", "i", "l", "i", "t", "i", "e", "s">>, <<"U", "t", "i", "l", "i", "t", "i", "e", "s">>),
  Category(<<"e", "x", "p", "e", "n", "s", "e", "-", "h", "e", "a", "l", "t", "h", "c", "a", "r", "e">>, <<"H", "e", "a", "l", "t", "h", "c", "a", "r", "e">>),
  Category(<<"e", "x", "p", "e", "n", "s", "e", "-", "e", "n", "t", "e", "r", "t", "a", "i", "n", "m", "e", "n", "t">>, <<"E", "n", "t", "e", "r", "t", "a", "i", "n", "m", "e", "n", "t">>),
  Category(<<"e", "x", "p", "e", "n", "s", "e", "-", "s", "h", "o", "p", "p", "i", "n", "g">>, <<"S", "h", "o", "p", "p", "i", "n", "g">>),
  Category(<<"e", "x", "p", "e", "n", "s", "e", "-", "e", "d", "u", "c", "a", "t", "i", "o", "n">>, <<"E", "d", "u", "c", "a", "t", "i", "o", "n">>),
  Category(<<"e", "x", "p", "e", "n", "s", "e", "-", "s", "a", "v", "i", "n", "g", "s">>, <<"S", "a", "v", "i", "n", "g", "s">>),
  Category(<<"e", "x", "p", "e", "n", "s", "e", "-", "o", "t", "h", "e", "r">>, <<"O", "t", "h", "e", "r", " ", "E", "x", "p", "e", "n", "s", "e", "s">>) >>

Transaction(description, amount, type) ==
  [description |-> description, amount |-> amount, type |-> type]

\* the calls under observation; amounts are in cents
CategorizeCalls ==
  { Transaction(<<"S", "T", "A", "R", "B", "U", "C", "K", "S", " ", "C", "O", "F", "F", "E", "E", " ", "#", "4", "5", "2", "1">>, 450, "expense"),
    Transaction(<<"A", "C", "M", "E", " ", "C", "O", "R", "P", " ", "P", "A", "Y", "R", "O", "L", "L", " ", "D", "E", "P", "O", "S", "I", "T">>, 250000, "income"),
    Transaction(<<"s", "t", "o", "r", "e", " ", "g", "a", "m", "e">>, 6000, "expense"),
    Transaction(<<"c", "o", "f", "f", "e", "e">>, 6000, "expense"),
    Transaction(<<" ", "M", "y", " ", "C", "o", "f", "f", "e", "e", " ", "s", "h", "o", "p", " ">>, 6000, "expense"),
    Transaction(<<"n", "e", "t", "f", "l", "i", "x", ".", "c", "o", "m">>, 150000, "expense"),
    Transaction(<<"w", "i", "r", "e", " ", "t", "r", "a", "n", "s", "f", "e", "r">>, 6000, "expense"),
    Transaction(<<"w", "i", "r", "e", " ", "t", "r", "a", "n", "s", "f", "e", "r">>, 450, "expense"),
    Transaction(<<"w", "i", "r", "e", " ", "t", "r", "a", "n", "s", "f", "e", "r">>, 6000, "income") }

CategorizeRequest(t) ==
  [fn |-> "categorizeTransaction", description |-> t.description,
   amount |-> t.amount, type |-> t.type]

\* the transactions of the uploads
UploadRows ==
  { Transaction(<<"A", "m", "a", "z", "o", "n", " ", "o", "r", "d", "e", "r">>, 6000, "expense"),
    Transaction(<<"S", "a", "l", "a", "r", "y", " ", "A", "C", "M", "E">>, 250000, "income") }

\* the names and ids the category routes are called with
RouteNames == { <<" ", "M", "i", "s", "c", " ">>, <<"I", "n", "c", "o", "m", "e">> }

RouteIds == { <<"3">>, <<"7">>, <<"8">> }

NextCategorize ==
  \/ CategorizeCall
  \/ CategorizeRead
  \/ CategorizeReadFails
  \/ \E name \in RouteNames : CreateCategory(name)
  \/ \E id \in RouteIds, name \in RouteNames : UpdateCategory(id, name)
  \/ \E id \in RouteIds : DeleteCategory(id)
  \/ LearnFromCorrection
  \/ \E transaction \in UploadRows, autoCategorize \in BOOLEAN :
       Upload(transaction, autoCategorize)

InitCategorize ==
  /\ NoUpload
  /\ east = FALSE
  /\ request \in {CategorizeRequest(t) : t \in CategorizeCalls}
  /\ call = Idle
  /\ answers = <<>>
  /\ \/ categories = installedCategories /\ sequence = Len(installedCategories)
     \/ categories = insertDefaultCategories /\ sequence = 0
     \/ categories = <<>> /\ sequence = Len(installedCategories)
  /\ used = {}
  /\ changes = 0
  /\ logged = 0
  /\ NoRoutes

SpecCategorize == InitCategorize /\ [][NextCategorize]_vars
---------------------------------------------------------------------------
(* The requests to the upload routes                                       *)

\* Date.now() of two requests in the same millisecond
Clock == { <<"1", "7", "0", "0", "0", "0", "0", "0", "0", "0", "0", "0", "0">> }

\* what Math.round(Math.random() * 1E9) gave
Randoms == { <<"7">>, <<"8">> }

UploadNames == {uploadName(now, random) : now \in Clock, random \in Randoms}

RentRow == << <<"2", "0", "2", "4", "-", "0", "1", "-", "1", "3">>, <<"R", "e", "n", "t">>, <<"-", "1", "5", "0", "0", ".", "0", "0">> >>

SalaryRow == << <<"0", "1", "/", "0", "2", "/", "2", "0", "2", "4">>, <<"S", "a", "l", "a", "r", "y">>, <<"2", "5", "0", "0", ".", "0", "0">> >>

UndatedRow == << <<"s", "o", "o", "n">>, <<"R", "e", "n", "t">>, <<"5", ".", "0", "0">> >>

\* the files of the first request: rows about the rent, with and without a
\* row that fails, a header without rows
RentFiles ==
  { FileOf(Table(FileHeader, rows)) :
      rows \in { << RentRow >>, << RentRow, UndatedRow >>, << UndatedRow >>, <<>> } }

\* the files of the second request: a salary, or no file at all
SalaryFiles == { FileOf(Table(FileHeader, << SalaryRow >>)), NoFile }

\* a file with one row more than preview mode is meant to read
LongFile == FileOf(Table(FileHeader, [i \in 1..(PreviewLimit + 1) |-> RentRow]))

NextUploads ==
  \/ \E r \in Uploaders, now \in Clock, random \in Randoms : StoreUpload(r, now, random)
  \/ \E r \in Uploaders : NoFileUploaded(r)
  \/ \E r \in Uploaders : OpenUpload(r)
  \/ \E r \in Uploaders : DataUpload(r)
  \/ \E r \in Uploaders : EndUpload(r)
  \/ \E r \in Uploaders : CsvParsed(r)
  \/ \E r \in Uploaders, insertFails \in BOOLEAN : CsvRow(r, insertFails)
  \/ \E r \in Uploaders : CsvDone(r)
  \/ \E r \in Uploaders : ValidateParsed(r)

\* two requests arrive together: the first to POST /csv with
\* auto_categorize 'true' or to POST /validate, the second to POST /csv
\* with auto_categorize 'false'; the long file goes to POST /validate beside
\* a request without a file
InitUploads ==
  /\ NoUpload
  /\ east = FALSE
  /\ request = NoRequest
  /\ call = Idle
  /\ answers = <<>>
  /\ categories = installedCategories /\ sequence = Len(installedCategories)
  /\ used = {}
  /\ changes = 0
  /\ logged = 0
  /\ disk = [n \in UploadNames |-> NoFile]
  /\ \E route \in {"csv", "validate"}, first \in RentFiles \cup {LongFile},
        second \in SalaryFiles :
       /\ first = LongFile => route = "validate" /\ second = NoFile
       /\ uploads = [r \in Uploaders |->
                       IF r = 1 THEN UploadRequest(route, first, TRUE)
                                ELSE UploadRequest("csv", second, FALSE)]
  /\ inserted = <<>>
  /\ NoProgress

SpecUploads == InitUploads /\ [][NextUploads]_vars
---------------------------------------------------------------------------
(* The requests to the goal routes                                         *)

\* the amounts of the requests, in hundredths; none for a body without a
\* number
PatchAmounts == { Just(2500), Just(5000), Just(10000), Just(-2500), Null }

\* the targets of the goal
GoalTargets == { 5000, 10000 }

NextProgress ==
  \/ \E p \in Patchers : PatchRefused(p)
  \/ \E p \in Patchers : PatchRead(p)
  \/ \E p \in Patchers : PatchUpdate(p)
  \/ \E p \in Patchers : PatchAnswer(p)

\* one goal, new or paused, and two requests that arrive together: the
\* first for the goal, the second for the goal or for a goal that is not
\* in the table
InitProgress ==
  /\ NoUpload
  /\ east = FALSE
  /\ request = NoRequest
  /\ call = Idle
  /\ answers = <<>>
  /\ categories = installedCategories /\ sequence = Len(installedCategories)
  /\ used = {}
  /\ changes = 0
  /\ logged = 0
  /\ disk = <<>> /\ uploads = <<>> /\ inserted = <<>>
  /\ \E target \in GoalTargets, status \in {"active", "paused"} :
       goals = << Goal(<<"1">>, DefaultAmount, target, status) >>
  /\ \E a \in PatchAmounts, b \in PatchAmounts, id \in { <<"1">>, <<"2">> } :
       patches = [p \in Patchers |->
                    IF p = 1 THEN PatchRequest(<<"1">>, a) ELSE PatchRequest(id, b)]

SpecProgress == InitProgress /\ [][NextProgress]_vars
---------------------------------------------------------------------------
(* Properties of the request: rows, errors and dispatch                    *)

\* the promise was rejected because the file could not be read, not because
\* of what its rows hold
streamFailed ==
  /\ outcome.state = "rejected"
  /\ outcome.message \in {"CSV parsing error: ", "stream error",
                          "Failed to parse Excel file: "}

\* what the caller of the service receives: the transactions of a resolved
\* promise, the row errors carried by a rejection
returnedTransactions == IF outcome.state = "resolved" THEN outcome.value ELSE <<>>

returnedErrors == IF outcome.state = "rejected" THEN outcome.detail ELSE <<>>

\* what the row handler of the running extractor makes of row i
rowResult(i) ==
  IF extractor = "parseCSVFile"
    THEN parseTransactionRow(rowAt(i), east)
    ELSE parseCSVRow(rowAt(i))

validRows(n) == {i \in 1..n : rowResult(i).kind = "return"}

\* what the row handler makes of the first n rows, row by row
rowResults(n) == [i \in 1..n |-> rowResult(i)]

valuesOf(returned) == [k \in 1..Len(returned) |-> returned[k].value]

\* the transactions among the row results, in source order
transactionsIn(rowResultSeq) ==
  valuesOf(SelectSeq(rowResultSeq, LAMBDA r : r.kind = "return"))

\* C1: when the CSV stream has ended, every data row is accounted for exactly
\* once in what the caller receives, as a transaction or as an error: the
\* number of transactions plus the number of errors is the number of rows.
C1_EveryRowAccounted ==
  (pc = "done" /\ extractor \in {"parseCSVFile", "parseCSV"} /\ ~streamFailed)
    => Len(returnedTransactions) + Len(returnedErrors) = Len(file.rows)

\* C2: in the CSV and spreadsheet pipelines a failing row never aborts the
\* run: after any number of rows the collected transactions are those of the
\* valid rows read so far, in source order; a run that resolves has read
\* every row and returns what was collected, the transactions of all valid
\* rows in source order; and rows alone reject a run only after every row
\* was read and none was valid.
C2_ValidRowsSurvive ==
  extractor \in {"parseCSVFile", "parseCSV", "parseExcel"} =>
    /\ results = transactionsIn(rowResults(pos))
    /\ (pc = "done" /\ outcome.state = "resolved") =>
         /\ pos = Len(file.rows)
         /\ outcome.value = results
    /\ (pc = "done" /\ outcome.state = "rejected" /\ ~streamFailed) =>
         /\ pos = Len(file.rows)
         /\ results = <<>>

\* a resolved CSV run over three rows whose second row failed and whose first
\* and third rows are returned
C2_ValidAroundFailing ==
  /\ pc = "done" /\ extractor = "parseCSVFile"
  /\ outcome.state = "resolved"
  /\ Len(file.rows) = 3
  /\ validRows(3) = {1, 3}
  /\ Len(errors) = 1
  /\ Len(outcome.value) = 2

extensionOf(path) ==
  SubSeq(path, SetMax({i \in 1..Len(path) : path[i] = "."} \cup {0}) + 1, Len(path))

\* C4: the bank-extract service selects the extractor from the extension of
\* the path alone, whatever MIME type was declared: csv gives the CSV
\* extractor, xlsx and xls the spreadsheet extractor, pdf the PDF extractor,
\* in any letter case; any other extension fails with the unsupported-format
\* error before an extractor is started and before a row or line is read.
C4_DispatchByExtension ==
  (entry = "parseBankExtract" /\ pc # "start") =>
    /\ toLowerCase(extensionOf(filePath)) = <<"c", "s", "v">> => extractor = "parseCSV"
    /\ toLowerCase(extensionOf(filePath)) \in {<<"x", "l", "s", "x">>, <<"x", "l", "s">>} => extractor = "parseExcel"
    /\ toLowerCase(extensionOf(filePath)) = <<"p", "d", "f">> => extractor = "parsePDF"
    /\ toLowerCase(extensionOf(filePath)) \notin {<<"c", "s", "v">>, <<"x", "l", "s", "x">>, <<"x", "l", "s">>, <<"p", "d", "f">>} =>
         /\ extractor = "none"
         /\ pc = "done"
         /\ outcome = Rejected("Unsupported file format: ", toLowerCase(extensionOf(filePath)))
         /\ pos = 0 /\ results = <<>>

\* an upload declared as text/csv whose path ends in .csv.txt was rejected
\* as unsupported with none of its lines read
C4_UnsupportedRejected ==
  /\ pc = "done" /\ entry = "parseBankExtract"
  /\ filePath = <<"u", "-", "a", ".", "c", "s", "v", ".", "t", "x", "t">> /\ mimeType = "text/csv"
  /\ Len(file.lines) > 0
  /\ outcome.state = "rejected"
  /\ outcome.message = "Unsupported file format: "
  /\ extractor = "none" /\ pos = 0
---------------------------------------------------------------------------
(* Properties of one row: the transaction or the error it gives            *)

\* the CSV service has handled the only row of the upload
oneRowRead == extractor = "parseCSVFile" /\ pos = 1

\* the only row of the upload as parseTransactionRow looks it up: under
\* canonical labels, a label met twice holding the later value
onlyRow == normalizeRow(rowAt(1))

\* C5: every transaction emitted by any extractor holds an amount that is
\* not negative; in the CSV service and in the column extractor of the
\* bank-extract service it is the absolute value of the amount parsed from
\* the row, whose sign shows in the type field only.
C5_AmountNotNegative ==
  /\ \A k \in 1..Len(results) : results[k].amount >= 0
  /\ \A k \in 1..Len(returnedTransactions) : returnedTransactions[k].amount >= 0
  /\ (oneRowRead /\ Len(results) = 1) =>
       results[1].amount = Abs(extractAmount(onlyRow).val)
  /\ (extractor \in {"parseCSV", "parseExcel"} /\ pos = 1 /\ Len(results) = 1) =>
       /\ results[1].amount = Abs(firstAmount(columnAmounts(rowAt(1))))
       /\ results[1].type = "expense" <=> firstAmount(columnAmounts(rowAt(1))) < 0

\* the CSV service parsed a negative amount and emitted it as 5.00
C5_NegativeStoredPositive ==
  /\ oneRowRead /\ Len(results) = 1
  /\ extractAmount(onlyRow).val = -500
  /\ results[1].amount = 500

\* C6: every emitted transaction has a description that is not empty and a
\* date of the form YYYY-MM-DD.
C6_DescriptionAndDate ==
  \A k \in 1..Len(results) :
    /\ results[k].description # <<>>
    /\ matchesNumbers(results[k].date, "-", {4}, {2}, {2})

\* a field of the row whose label is in the list and whose value passes
Recognizable(row, fields, Parses(_)) ==
  \E i \in 1..Len(row) :
    /\ \E f \in 1..Len(fields) : row[i][1] = fields[f]
    /\ Parses(row[i][2])

hasAmountField(row) ==
  Recognizable(row, amountFields, LAMBDA v : ~parseNumber(v).isNull)

hasDescriptionField(row) ==
  Recognizable(row, descriptionFields, LAMBDA v : trim(v) # <<>>)

hasDateField(row, inEast) ==
  Recognizable(row, dateFields, LAMBDA v : parseDate(v, inEast) # <<>>)

anyAmount(row) ==
  \/ hasAmountField(row)
  \/ \E i \in 1..Len(row) :
       /\ \E w \in {<<"a", "m", "o", "u", "n", "t">>, <<"s", "u", "m">>, <<"t", "o", "t", "a", "l">>} : includes(row[i][1], w)
       /\ ~parseNumber(row[i][2]).isNull

anyDescription(row) ==
  \/ hasDescriptionField(row)
  \/ \E i \in 1..Len(row) : trim(row[i][2]) # <<>> /\ parseFloat(row[i][2]).isNaN

firstMissing(row, inEast) ==
  IF ~anyAmount(row) THEN "Could not parse amount from row"
  ELSE IF ~anyDescription(row) THEN "Could not parse description from row"
  ELSE IF ~hasDateField(row, inEast) THEN "Could not parse date from row"
  ELSE "none"

noNumericField(row) == \A i \in 1..Len(row) : parseNumber(row[i][2]).isNull

\* what a step of the CSV service must do with a row whose first missing
\* field has the reason
oneErrorFor(reason, noNumeric) ==
  /\ reason # "none" =>
       /\ errors' = Append(errors, <<"Row parsing error: ", reason>>)
       /\ results' = results
  /\ noNumeric =>
       /\ Len(errors') = Len(errors) + 1
       /\ errors'[Len(errors')][2] = "Could not parse amount from row"

\* C8: a row lacking a parseable amount, a description or a parseable date
\* yields exactly one error and no transaction: the step that reads it
\* appends one error whose reason names the first of amount, description,
\* date that is missing (a row without any numeric field gets the reason of
\* the amount) and leaves the transactions of the other rows as they are.
C8_FirstMissingFieldReported ==
  [][(extractor = "parseCSVFile" /\ pos' = pos + 1)
       => oneErrorFor(firstMissing(normalizeRow(rowAt(pos + 1)), east),
                      noNumericField(rowAt(pos + 1)))]_vars

\* a file whose first row gave a transaction, whose second row lacks a
\* description and a date and whose third row lacks a date: the errors
\* name the description and the date, the transaction is still there
C8_ErrorsBesideTransaction ==
  /\ extractor = "parseCSVFile" /\ pos = 3
  /\ rowResult(1).kind = "return"
  /\ results = <<rowResult(1).value>>
  /\ ~anyDescription(normalizeRow(rowAt(2)))
  /\ ~hasDateField(normalizeRow(rowAt(2)), east)
  /\ errors = << <<"Row parsing error: ", "Could not parse description from row">>,
                 <<"Row parsing error: ", "Could not parse date from row">> >>

\* C9: the row {"Txn Date": "13/01/2024", "Memo": "Rent", "Debit": "1500.00"}
\* yields the transaction of 13 January 2024, description Rent, amount
\* 1500.00, type Expense.
C9_TxnDateRow ==
  (/\ extractor \in {"parseCSVFile", "parseCSV", "parseExcel"} /\ pos = 1
   /\ rowAt(1) = rowObject(<< <<"T", "x", "n", " ", "D", "a", "t", "e">>, <<"M", "e", "m", "o">>, <<"D", "e", "b", "i", "t">> >>,
                           << <<"1", "3", "/", "0", "1", "/", "2", "0", "2", "4">>, <<"R", "e", "n", "t">>, <<"1", "5", "0", "0", ".", "0", "0">> >>))
    => /\ Len(results) = 1
       /\ results[1].date = <<"2", "0", "2", "4", "-", "0", "1", "-", "1", "3">>
       /\ results[1].description = <<"R", "e", "n", "t">>
       /\ results[1].amount = 150000
       /\ results[1].type = "expense"

\* the type the first type field holding a keyword gives, in the order type,
\* transactiontype, category, debitcredit; "" without one
keywordType(row) ==
  LET value(i) == toLowerCase(get(row, typeFields[i]))
      telling  == {i \in 1..Len(typeFields) : saysIncome(value(i)) \/ saysExpense(value(i))}
  IN IF telling = {} THEN ""
     ELSE IF saysIncome(value(SetMin(telling))) THEN "income" ELSE "expense"

\* the precedence of the type: keyword, then debit column, then credit
\* column, then sign
typeByPrecedence(row, amount, debitCounts, creditCounts) ==
  IF keywordType(row) # "" THEN keywordType(row)
  ELSE IF debitCounts THEN "expense"
  ELSE IF creditCounts THEN "income"
  ELSE IF amount < 0 THEN "expense" ELSE "income"

\* C10 as stated: (a) a type field whose value holds credit, deposit or
\* income gives Income, one holding debit, withdrawal or expense gives
\* Expense; otherwise (b) a populated debit field gives Expense and a
\* populated credit field gives Income; otherwise (c) the sign of the parsed
\* amount decides.
C10_PopulatedColumnDecides ==
  (oneRowRead /\ Len(results) = 1) =>
    results[1].type =
      typeByPrecedence(onlyRow, extractAmount(onlyRow).val,
                       truthy(get(onlyRow, <<"d", "e", "b", "i", "t">>)),
                       truthy(get(onlyRow, <<"c", "r", "e", "d", "i", "t">>)))

\* C10: the type is decided by strict precedence: (a) the first type field,
\* in the order type, transactiontype, category, debitcredit, whose value
\* holds a keyword gives Income for credit, deposit or income and otherwise
\* Expense for debit, withdrawal or expense; otherwise (b) a debit field
\* whose value parses as a number gives Expense, and failing that a credit
\* field whose value parses as a number gives Income; otherwise (c) a
\* negative parsed amount gives Expense and any other Income.
C10_ParsedColumnDecides ==
  (oneRowRead /\ Len(results) = 1) =>
    results[1].type =
      typeByPrecedence(onlyRow, extractAmount(onlyRow).val,
                       ~parseNumber(get(onlyRow, <<"d", "e", "b", "i", "t">>)).isNull,
                       ~parseNumber(get(onlyRow, <<"c", "r", "e", "d", "i", "t">>)).isNull)

\* a row whose amount is negative and whose type column says Credit was
\* emitted as income
C10_KeywordOverridesSign ==
  /\ oneRowRead /\ Len(results) = 1
  /\ get(onlyRow, <<"t", "y", "p", "e">>) = <<"C", "r", "e", "d", "i", "t">>
  /\ extractAmount(onlyRow).val < 0
  /\ results[1].type = "income"

\* a label lower-cased and without its non-alphanumeric characters
canonicalLabel(label) ==
  SelectSeq(toLowerCase(label), LAMBDA c : c \in LowerSet \cup Digits)

canonicalHeader(header) == [i \in 1..Len(header) |-> canonicalLabel(header[i])]

\* no two labels of the header have one canonical form
labelsApart(header) ==
  \A i, j \in 1..Len(header) :
    canonicalLabel(header[i]) = canonicalLabel(header[j]) => i = j

\* what the row handler of the running extractor makes of a row
handled(row) ==
  IF extractor = "parseCSVFile" THEN parseTransactionRow(row, east)
  ELSE parseCSVRow(row)

sameResult(given, other) ==
  /\ given.kind = other.kind
  /\ given.kind = "return" => given.value = other.value
  /\ given.kind = "throw" => given.message = other.message

\* C12: column labels are canonicalized before any field lookup, so two rows
\* that differ only in the case, spacing or punctuation of their labels
\* normalize to the same result: the row of the upload gives what the row
\* with the same values under canonical labels gives, the same transaction
\* or the same error.
C12_LabelsCanonicalized ==
  (/\ extractor \in {"parseCSVFile", "parseCSV", "parseExcel"} /\ pos = 1
   /\ labelsApart(file.header))
    => /\ sameResult(rowResult(1),
                     handled(rowObject(canonicalHeader(file.header), file.rows[1])))
       /\ results =
            transactionsIn(
              << handled(rowObject(canonicalHeader(file.header), file.rows[1])) >>)
---------------------------------------------------------------------------
(* Properties of the parsers called on one value                           *)

\* the text is three numbers of the given widths around the separator and
\* names a day of the calendar; order gives the places of year, month, day
writtenAs(text, sep, w1, w2, w3, order) ==
  /\ matchesNumbers(text, sep, {w1}, {w2}, {w3})
  /\ numbersOf(text, sep)[order[2]] \in 1..12
  /\ numbersOf(text, sep)[order[3]] \in
       1..daysInMonth(numbersOf(text, sep)[order[1]], numbersOf(text, sep)[order[2]])

dayWritten(text, sep, order) ==
  formatYMD(<< numbersOf(text, sep)[order[1]], numbersOf(text, sep)[order[2]],
               numbersOf(text, sep)[order[3]] >>)

isCalendarISO(text) == writtenAs(text, "-", 4, 2, 2, <<1, 2, 3>>)

\* the text is a valid date in one of the four formats of the list
inListedFormat(text) ==
  \/ isCalendarISO(text)
  \/ writtenAs(text, "/", 2, 2, 4, <<3, 1, 2>>)
  \/ writtenAs(text, "/", 2, 2, 4, <<3, 2, 1>>)
  \/ writtenAs(text, "-", 2, 2, 4, <<3, 2, 1>>)

\* the date of the first format of the list YYYY-MM-DD, MM/DD/YYYY,
\* DD/MM/YYYY, DD-MM-YYYY under which the text is a day of the calendar
firstListedReading(text) ==
  IF isCalendarISO(text) THEN dayWritten(text, "-", <<1, 2, 3>>)
  ELSE IF writtenAs(text, "/", 2, 2, 4, <<3, 1, 2>>)
    THEN dayWritten(text, "/", <<3, 1, 2>>)
  ELSE IF writtenAs(text, "/", 2, 2, 4, <<3, 2, 1>>)
    THEN dayWritten(text, "/", <<3, 2, 1>>)
  ELSE dayWritten(text, "-", <<3, 2, 1>>)

\* the date a call gave: the text parseDate returned (empty for null), the
\* text normalizeDate returned (empty when it threw)
dateGiven(value) ==
  IF request.fn = "parseDate" THEN value
  ELSE IF value.kind = "return" THEN value.value ELSE <<>>

dateCalled == request.fn \in {"parseDate", "normalizeDate"}

\* C11: a date value is parsed by trying the formats YYYY-MM-DD, MM/DD/YYYY,
\* DD/MM/YYYY, DD-MM-YYYY in this order and taking the first that yields a
\* valid calendar date: a slash date valid under both readings is read
\* month first, a slash date whose first component exceeds 12 (13/01/2024)
\* is read day first and yields that calendar date (2024-01-13).
C11_FormatsTriedInOrder ==
  dateCalled =>
    \A k \in 1..Len(answers) :
      inListedFormat(answers[k].of) =>
        dateGiven(answers[k].value) = firstListedReading(answers[k].of)

\* parseNumber was called on the digit string d in parentheses
calledInParentheses(d) ==
  /\ request.fn = "parseNumber"
  /\ request.text = Parenthesized(d)
  /\ Len(answers) = 1

\* C13: amount parsing is sign-consistent: for every digit string d that
\* parses to a number n, the parenthesized value "(d)" parses to a negative
\* number whose magnitude is |n|.
C13_ParenthesesNegate ==
  \A d \in DigitTexts :
    (calledInParentheses(d) /\ ~parseNumber(d).isNull) =>
      /\ ~answers[1].value.isNull
      /\ answers[1].value.val <= 0
      /\ Abs(answers[1].value.val) = Abs(parseNumber(d).val)
      /\ parseNumber(d).val # 0 => answers[1].value.val < 0

\* "(5.5)" was parsed as -5.50, "5.5" parsing as 5.50
C13_FiveFiftyNegated ==
  /\ calledInParentheses(<<"5", ".", "5">>)
  /\ parseNumber(<<"5", ".", "5">>) = Just(550)
  /\ answers[1].value = Just(-550)

\* C14: date normalization is idempotent on canonical input: for every valid
\* calendar date written YYYY-MM-DD, normalizing it returns the same string,
\* and therefore normalizing the output of a normalization returns it
\* unchanged.
C14_CanonicalDateUnchanged ==
  dateCalled =>
    /\ \A k \in 1..Len(answers) :
         isCalendarISO(answers[k].of) => dateGiven(answers[k].value) = answers[k].of
    /\ (Len(answers) >= 2 /\ isCalendarISO(request.text)) =>
         /\ answers[2].of = dateGiven(answers[1].value)
         /\ dateGiven(answers[2].value) = dateGiven(answers[1].value)

\* the leap day 2024-02-29 was normalized by parseDate in a zone east of
\* Greenwich, and its output normalized again, both giving 2024-02-29
C14_LeapDayTwice ==
  /\ request = CallRequest("parseDate", <<"2", "0", "2", "4", "-", "0", "2", "-", "2", "9">>)
  /\ east
  /\ Len(answers) = 2
  /\ answers[1].value = <<"2", "0", "2", "4", "-", "0", "2", "-", "2", "9">>
  /\ answers[2].of = <<"2", "0", "2", "4", "-", "0", "2", "-", "2", "9">>
  /\ answers[2].value = <<"2", "0", "2", "4", "-", "0", "2", "-", "2", "9">>
---------------------------------------------------------------------------
(* Properties of the categorizer                                           *)

categorizeCalled == request.fn = "categorizeTransaction"

\* the calls that returned after dbAll gave them the table
returned == {k \in 1..Len(answers) : ~answers[k].failed}

normalizedDescription == trim(toLowerCase(request.description))

\* the keyword stands in the description as a whole word: with white space
\* or an end of the description on either side
wholeWord(description, keyword) ==
  \E i \in 1..(Len(description) - Len(keyword) + 1) :
    /\ SubSeq(description, i, i + Len(keyword) - 1) = keyword
    /\ i = 1 \/ description[i - 1] \in WhiteSpace
    /\ \/ i + Len(keyword) - 1 = Len(description)
       \/ description[i + Len(keyword)] \in WhiteSpace

isPartOf(description, keyword) ==
  \E i \in 1..(Len(description) - Len(keyword) + 1) :
    SubSeq(description, i, i + Len(keyword) - 1) = keyword

\* +10 for a whole word, +5 for a keyword found only inside a longer word
wordWorth(description, keyword) ==
  IF wholeWord(description, keyword) THEN 10
  ELSE IF isPartOf(description, keyword) THEN 5
  ELSE 0

\* every keyword counted once
keywordsWorth(description, keywords) ==
  LET sum[i \in 0..Len(keywords)] ==
        IF i = 0 THEN 0 ELSE sum[i - 1] + wordWorth(description, keywords[i])
  IN sum[Len(keywords)]

candidateRules == getCategoryRules(request.type)

\* C16: in scoring, each keyword of a candidate rule contributes +10 when it
\* occurs in the lower-cased description as a whole word, delimited on each
\* side by whitespace or by the start or end of the description (so also
\* when the description is exactly that keyword), +5 when it occurs only as
\* a substring of a longer word, and at most once: the score of every
\* candidate rule is the sum of these contributions and of the amount boost.
C16_WholeWordTenSubstringFive ==
  (categorizeCalled /\ returned # {}) =>
    \A r \in 1..Len(candidateRules) :
      calculateMatchScore(normalizedDescription, candidateRules[r].keywords,
                          request.amount, request.type)
        = keywordsWorth(normalizedDescription, candidateRules[r].keywords)
            + amountBoost(candidateRules[r].keywords, request.amount, request.type)

sameName(a, b) == toLowerCase(a) = toLowerCase(b)

\* the candidate rules that have a category in the rows read
presentRules(rows) ==
  {r \in 1..Len(candidateRules) :
     \E i \in 1..Len(rows) : sameName(rows[i].name, candidateRules[r].name)}

scoreOf(r) ==
  calculateMatchScore(normalizedDescription, candidateRules[r].keywords,
                      request.amount, request.type)

topScore(present) == SetMax({0} \cup {scoreOf(r) : r \in present})

\* the first rule, in the order of the rule table, with the highest score
firstAtTop(present, top) == SetMin({r \in present : scoreOf(r) = top})

\* the name of the category a call returned, empty for none
nameReturned(answer) ==
  IF answer.id.found
    THEN answer.read[place(answer.read, answer.id.id)].name
    ELSE <<>>

winnerReturned(answer, present, top) ==
  top > 0 =>
    sameName(nameReturned(answer), candidateRules[firstAtTop(present, top)].name)

\* C17: categorize returns the candidate rule with the strictly highest
\* score; when several rules share the highest score, the one that comes
\* first in the fixed order of the rule table wins, independently of the
\* order or content of any other store (candidates being the rules that
\* have a category to return).
C17_TieGoesToFirstRule ==
  categorizeCalled =>
    \A k \in returned :
      winnerReturned(answers[k], presentRules(answers[k].read),
                     topScore(presentRules(answers[k].read)))

\* the id of the first row with the name, in any case; none without one
firstNamed(rows, name) ==
  IF \E i \in 1..Len(rows) : sameName(rows[i].name, name)
    THEN Id(rows[SetMin({i \in 1..Len(rows) : sameName(rows[i].name, name)})].id)
    ELSE NoId

allScoreZero == \A r \in 1..Len(candidateRules) : scoreOf(r) = 0

\* C18 as stated: when every candidate rule scores 0, categorize returns the
\* default category of the transaction's type, "Other" for an expense and
\* "Income" for an income, or no category when no such default exists.
C18_DefaultOfTypeOrNone ==
  (categorizeCalled /\ allScoreZero) =>
    \A k \in returned :
      answers[k].id =
        firstNamed(answers[k].read,
                   IF request.type = "income" THEN <<"I", "n", "c", "o", "m", "e">> ELSE <<"O", "t", "h", "e", "r">>)

\* the default the code falls back on: for an income the category named
\* Income, failing that, and for an expense, the category named Other
defaultOrOther(rows) ==
  IF request.type = "income" /\ firstNamed(rows, <<"I", "n", "c", "o", "m", "e">>).found
    THEN firstNamed(rows, <<"I", "n", "c", "o", "m", "e">>)
    ELSE firstNamed(rows, <<"O", "t", "h", "e", "r">>)

\* C18 as the code has it: when no candidate rule with a category in the
\* table scores above 0 (so whenever every candidate rule scores 0),
\* categorize returns for an income the first category named Income, in any
\* case of letters; failing that, and for an expense, the first category
\* named Other; and no category when the table has neither.
\* Checked on every step in which a call returns with the rows dbAll gave.
C18_DefaultFallsBackToOther ==
  [][(/\ categorizeCalled
      /\ Len(answers') = Len(answers) + 1
      /\ ~answers'[Len(answers) + 1].failed
      /\ topScore(presentRules(categories)) = 0)
       => /\ answers'[Len(answers) + 1].read = categories
          /\ answers'[Len(answers) + 1].id = defaultOrOther(categories)]_vars

\* an income without a keyword, categorized after the category Income was
\* deleted or renamed, is returned as Other (category 8)
C18_IncomeFallsBackToOther ==
  /\ categorizeCalled /\ request.type = "income" /\ allScoreZero
  /\ Len(answers) = 1 /\ returned = {1}
  /\ ~firstNamed(answers[1].read, <<"I", "n", "c", "o", "m", "e">>).found
  /\ answers[1].id = Id(<<"8">>)

Starbucks == <<"S", "T", "A", "R", "B", "U", "C", "K", "S", " ", "C", "O", "F", "F", "E", "E", " ", "#", "4", "5", "2", "1">>

starbucksCalled ==
  /\ categorizeCalled
  /\ request.description = Starbucks
  /\ request.amount = 450
  /\ request.type = "expense"

\* C19: categorize("STARBUCKS COFFEE #4521", 4.50, Expense) returns the
\* category Food & Dining: the keywords starbucks and coffee match (+10
\* each) and the amount boost applies because the amount is below 50 (+2),
\* and no other expense rule reaches that score (the table read holding a
\* category of that name).
C19_StarbucksIsFoodAndDining ==
  (starbucksCalled /\ returned # {}) =>
    /\ \A k \in returned :
         firstNamed(answers[k].read, <<"F", "o", "o", "d", " ", "&", " ", "D", "i", "n", "i", "n", "g">>).found =>
           /\ answers[k].id = firstNamed(answers[k].read, <<"F", "o", "o", "d", " ", "&", " ", "D", "i", "n", "i", "n", "g">>)
           /\ nameReturned(answers[k]) = <<"F", "o", "o", "d", " ", "&", " ", "D", "i", "n", "i", "n", "g">>
    /\ candidateRules[1].name = <<"F", "o", "o", "d", " ", "&", " ", "D", "i", "n", "i", "n", "g">>
    /\ wordScore(normalizedDescription, <<"s", "t", "a", "r", "b", "u", "c", "k", "s">>) = 10
    /\ wordScore(normalizedDescription, <<"c", "o", "f", "f", "e", "e">>) = 10
    /\ amountBoost(candidateRules[1].keywords, request.amount, request.type) = 2
    /\ scoreOf(1) = 22
    /\ \A r \in 2..Len(candidateRules) : scoreOf(r) < 22

\* the call returned category 1, Food & Dining, of the table of part_007
C19_StarbucksReturnedOne ==
  /\ starbucksCalled
  /\ Len(answers) = 1 /\ returned = {1}
  /\ answers[1].id = Id(<<"1">>)
  /\ nameReturned(answers[1]) = <<"F", "o", "o", "d", " ", "&", " ", "D", "i", "n", "i", "n", "g">>

payrollCalled ==
  /\ categorizeCalled
  /\ request.description = <<"A", "C", "M", "E", " ", "C", "O", "R", "P", " ", "P", "A", "Y", "R", "O", "L", "L", " ", "D", "E", "P", "O", "S", "I", "T">>
  /\ request.amount = 250000
  /\ request.type = "income"

\* the rows are the default categories a database initialization installs
asInstalled(rows) == rows \in {installedCategories, insertDefaultCategories}

\* C20: categorize("ACME CORP PAYROLL DEPOSIT", 2500.00, Income) returns the
\* income category (Income or Salary) through the keyword payroll, with the
\* default categories that database initialization installs.
C20_PayrollIsIncome ==
  payrollCalled =>
    \A k \in returned :
      asInstalled(answers[k].read) =>
        /\ wordScore(normalizedDescription, <<"p", "a", "y", "r", "o", "l", "l">>) = 10
        /\ nameReturned(answers[k]) \in {<<"I", "n", "c", "o", "m", "e">>, <<"S", "a", "l", "a", "r", "y">>}
---------------------------------------------------------------------------
(* Properties of the categorizer: failures and amounts                     *)

\* the ids of the rows a call read
idsRead(answer) == {Id(answer.read[i].id) : i \in 1..Len(answer.read)}

\* no row of the table is named Income or Other
withoutDefault(rows) ==
  ~firstNamed(rows, <<"I", "n", "c", "o", "m", "e">>).found /\ ~firstNamed(rows, <<"O", "t", "h", "e", "r">>).found

noKeywordOccurs ==
  \A r \in 1..Len(candidateRules) :
    \A j \in 1..Len(candidateRules[r].keywords) :
      ~isPartOf(normalizedDescription, candidateRules[r].keywords[j])

\* C25: a candidate rule's score is positive only if at least one of its
\* keywords occurs in the description: the +2 of the amount band is added
\* only on top of a keyword match, so an expense whose description holds no
\* keyword of any rule receives the default category whatever its amount
\* (below 50, above 1000 or in between).
C25_BonusOnlyOnKeywordMatch ==
  (categorizeCalled /\ request.type = "expense" /\ noKeywordOccurs) =>
    \A k \in returned :
      /\ \A r \in presentRules(answers[k].read) : scoreOf(r) = 0
      /\ answers[k].id = defaultOrOther(answers[k].read)
---------------------------------------------------------------------------
(* Properties of the upload routes                                         *)

\* parseTransactionRow of every row of the file the request sent
ownParsed(r) ==
  [i \in 1..Len(uploads[r].sent.val.rows) |->
     parseTransactionRow(rowObject(uploads[r].sent.val.header,
                                   uploads[r].sent.val.rows[i]), east)]

\* the transactions of the file the request sent
ownTransactions(r) == valuesOf(SelectSeq(ownParsed(r), LAMBDA t : t.kind = "return"))

\* the file has rows and every one of them fails
ownAllFail(r) ==
  /\ Len(uploads[r].sent.val.rows) > 0
  /\ \A i \in 1..Len(uploads[r].sent.val.rows) : ownParsed(r)[i].kind = "throw"

\* a row of the transactions table without its id and category
content(row) ==
  [amount |-> row.amount, description |-> row.description, type |-> row.type,
   date |-> row.date]

\* the answer reports the transactions given, each once, as processed or
\* as an error of its row, and nothing else
reportsExactly(response, transactions) ==
  /\ response.status = 200
  /\ Len(response.transactions) + Len(response.errors) = Len(transactions)
  /\ \A k \in 1..Len(response.transactions) :
       \E j \in 1..Len(transactions) : content(response.transactions[k]) = transactions[j]
  /\ \A k \in 1..Len(response.errors) :
       /\ response.errors[k].row \in 1..Len(transactions)
       /\ response.errors[k].transaction = transactions[response.errors[k].row]

\* what POST /csv answers to the request when it is processed alone
reportsAsAlone(r, response) ==
  IF uploads[r].sent.isNull THEN response.status = 400
  ELSE IF ownAllFail(r) THEN response.status = 500
  ELSE IF Len(ownTransactions(r)) = 0 THEN response.status = 400
  ELSE reportsExactly(response, ownTransactions(r))

answered(r) == uploads # <<>> /\ uploads[r].at = "done"

\* C22: concurrent uploads do not interfere: for every interleaving of two
\* upload requests, the transactions and errors each request reports are
\* those it would report when processed alone on its own file, with no row
\* of one file appearing in, or missing from, the other's result.
C22_UploadsDoNotInterfere ==
  \A r \in DOMAIN uploads :
    (answered(r) /\ uploads[r].route = "csv") =>
      reportsAsAlone(r, uploads[r].response)

\* the same for requests whose files were stored under different names
C22_ApartWhenNamesDiffer ==
  (uploads # <<>> /\ uploads[1].path # uploads[2].path) => C22_UploadsDoNotInterfere

\* C28: in preview mode parseCSVFile limits its result to the first 100
\* rows: for a file with any number of valid rows, the list it returns (and
\* so the total_count of POST /validate) never holds more than 100
\* transactions.
C28_PreviewAtMostHundred ==
  \A r \in DOMAIN uploads :
    uploads[r].route = "validate" =>
      /\ uploads[r].parsed.state = "resolved" =>
           Len(uploads[r].parsed.value) <= PreviewLimit
      /\ uploads[r].response.count <= PreviewLimit

\* the step sends the answer of request r
responds(r) == uploads[r].at # "done" /\ uploads'[r].at = "done"

\* C29: every upload request that stored a file on disk has removed that
\* file from the uploads directory by the time its response is sent, on
\* every path: success, 'no transactions found' (empty parse result) and
\* parse or processing failure.
C29_FileRemovedByResponse ==
  [][\A r \in DOMAIN uploads :
       (responds(r) /\ uploads[r].path # <<>>) => disk'[uploads[r].path].isNull]_vars
---------------------------------------------------------------------------
(* Properties of the PDF extractor                                         *)

\* the words of a line, split at single spaces
wordsOf(line) == splitOn(trim(line), " ")

\* the word is a currency amount with its sign: amountPattern matches all
\* of it
isAmountText(word) == Len(word) > 0 /\ amountEnd(word, 1) = Len(word) + 1

\* a line of the form '<date> <description> <signed currency amount>' with
\* a date of the calendar
datedAmountLine(line) ==
  /\ Len(wordsOf(line)) = 3
  /\ isDateText(wordsOf(line)[1])
  /\ normalizeDate(wordsOf(line)[1]).kind = "return"
  /\ Len(wordsOf(line)[2]) > 0
  /\ isAmountText(wordsOf(line)[3])

\* the transaction such a line describes: its date, its description, the
\* magnitude of its amount and the type of the amount's sign
lineAsWritten(words) ==
  lineTransaction(normalizeDate(words[1]),
                  parseFloat(removeChars(words[3], {",", "$"})),
                  words[2])

pdfRead == extractor = "parsePDF"

\* C23: for a PDF text line of the form '<date> <description> <signed
\* currency amount>', such as '2023-12-01 DESCRIPTION -$100.00', the PDF
\* extractor yields one transaction whose date is the line's date, whose
\* amount is the magnitude of the currency amount on the line, whose type
\* follows that amount's sign and whose description is the line without the
\* date, the amount and the sign characters.
C23_DatedLineYieldsItsTransaction ==
  pdfRead =>
    \A i \in 1..pos :
      datedAmountLine(file.lines[i]) =>
        parsePDFLine(file.lines[i]) = lineAsWritten(wordsOf(file.lines[i]))

\* what parsePDFLine makes of each line of the text
lineResults == [i \in 1..Len(file.lines) |-> parsePDFLine(file.lines[i])]

\* C24: in the PDF pipeline a single bad line never aborts the file: a line
\* that matches the date and amount patterns but whose date is not a date
\* of the calendar (99/99/9999) is reported or skipped, and every
\* transaction line before and after it is in the result.
C24_BadLineNeverAborts ==
  (pdfRead /\ pc = "done" /\ pos > 0) =>
    /\ outcome.state = "resolved"
    /\ outcome.value = transactionsIn(lineResults)
---------------------------------------------------------------------------
(* Properties of one row: debit and credit columns, fallback description   *)

labelIn(key, fields) == \E f \in 1..Len(fields) : fields[f] = key

\* the row has a debit and a credit column, no type column and no other
\* amount column
debitCreditOnly(row) ==
  /\ hasKey(row, <<"d", "e", "b", "i", "t">>) /\ hasKey(row, <<"c", "r", "e", "d", "i", "t">>)
  /\ \A i \in 1..Len(row) :
       /\ ~labelIn(row[i][1], typeFields)
       /\ labelIn(row[i][1], amountFields) => row[i][1] \in { <<"d", "e", "b", "i", "t">>, <<"c", "r", "e", "d", "i", "t">> }
       /\ ~includes(row[i][1], <<"a", "m", "o", "u", "n", "t">>) /\ ~includes(row[i][1], <<"s", "u", "m">>)
       /\ ~includes(row[i][1], <<"t", "o", "t", "a", "l">>)

\* the value is a number other than zero
nonZeroValue(value) == ~parseNumber(value).isNull /\ parseNumber(value).val # 0

\* the value is empty or a zero such as "0.00"
emptyOrZero(value) ==
  value = <<>> \/ (~parseNumber(value).isNull /\ parseNumber(value).val = 0)

\* the only transaction of the row has the magnitude of the value as its
\* amount and the type given
yieldsOf(value, type) ==
  /\ Len(results) = 1
  /\ results[1].amount = Abs(parseNumber(value).val)
  /\ results[1].type = type

\* C26: for a row with both a debit and a credit column, no explicit type
\* field and no other amount field, in which exactly one of the two columns
\* holds a non-zero value (the other being empty or zero such as "0.00"),
\* the transaction has that non-zero value as its amount and the type of
\* that column (expense for debit, income for credit).
C26_NonZeroColumnDecides ==
  (/\ oneRowRead
   /\ debitCreditOnly(onlyRow)
   /\ hasDateField(onlyRow, east)
   /\ hasDescriptionField(onlyRow))
    => /\ (nonZeroValue(get(onlyRow, <<"d", "e", "b", "i", "t">>)) /\ emptyOrZero(get(onlyRow, <<"c", "r", "e", "d", "i", "t">>)))
            => yieldsOf(get(onlyRow, <<"d", "e", "b", "i", "t">>), "expense")
       /\ (nonZeroValue(get(onlyRow, <<"c", "r", "e", "d", "i", "t">>)) /\ emptyOrZero(get(onlyRow, <<"d", "e", "b", "i", "t">>)))
            => yieldsOf(get(onlyRow, <<"c", "r", "e", "d", "i", "t">>), "income")

\* the field supplies the date, the amount or the type of the row: its
\* label is in one of their lists
supplies(key) ==
  labelIn(key, dateFields) \/ labelIn(key, amountFields) \/ labelIn(key, typeFields)

\* the texts of the other fields: not empty and not a number
otherTexts(row) ==
  { trim(row[i][2]) : i \in { j \in 1..Len(row) :
                               /\ ~supplies(row[j][1])
                               /\ trim(row[j][2]) # <<>>
                               /\ parseFloat(row[j][2]).isNaN } }

\* C27: when a row has no field from the description priority list, the
\* fallback description is taken only from a field that does not supply
\* the row's date, amount or type: the description of a transaction is
\* never the row's date string or its type or debit/credit keyword, and
\* the row fails with a description error when no other textual field
\* exists.
C27_FallbackFromOtherFieldOnly ==
  (oneRowRead /\ hasAmountField(onlyRow) /\ ~hasDescriptionField(onlyRow)) =>
    IF otherTexts(onlyRow) = {}
      THEN /\ results = <<>>
           /\ errors = << <<"Row parsing error: ", "Could not parse description from row">> >>
      ELSE \A k \in 1..Len(results) : results[k].description \in otherTexts(onlyRow)
---------------------------------------------------------------------------
(* Goal progress                                                           *)

\* both requests went through the whole handler for the same goal
bothApplied ==
  /\ \A p \in Patchers : patches[p].at = "done" /\ patches[p].status = 200
  /\ patches[1].id = patches[2].id

\* no sum of the amounts goes below zero, so Math.max(0, ...) leaves every
\* sum as it is
noClamping ==
  /\ DefaultAmount + patches[1].amount.val >= 0
  /\ DefaultAmount + patches[2].amount.val >= 0
  /\ DefaultAmount + patches[1].amount.val + patches[2].amount.val >= 0

\* the second of the two reads saw the update of the other request
oneAfterTheOther ==
  \E p \in Patchers, q \in Patchers :
    /\ p # q
    /\ patches[p].existingGoal.current_amount = DefaultAmount
    /\ patches[q].existingGoal.current_amount =
         newCurrentAmount(patches[p].existingGoal, patches[p].amount.val)
    /\ patches[q].existingGoal.current_amount # DefaultAmount

\* C30: after two concurrent PATCH /:id/progress requests with the amounts
\* a and b on the same goal, with no clamping at zero, the goal's
\* current_amount is its initial current_amount + a + b, and its status is
\* completed whenever that amount reaches target_amount, in every
\* interleaving.
C30_ProgressUpdatesNotLost ==
  (Len(patches) = 2 /\ bothApplied /\ noClamping) =>
     LET final == goalOf(goals, patches[1].id) IN
       /\ final.current_amount =
            DefaultAmount + patches[1].amount.val + patches[2].amount.val
       /\ (final.current_amount >= final.target_amount => final.status = "completed")

\* the same for the interleavings in which one request reads the goal
\* after the other has updated it
C30_SumWhenOneAfterTheOther ==
  (Len(patches) = 2 /\ bothApplied /\ noClamping /\ oneAfterTheOther) =>
     LET final == goalOf(goals, patches[1].id) IN
       /\ final.current_amount =
            DefaultAmount + patches[1].amount.val + patches[2].amount.val
       /\ (final.current_amount >= final.target_amount => final.status = "completed")

=============================================================================
